---- MODULE Spec2Model ----
(***************************************************************************)
(* ELOUARATE ART backend: the in-memory ("mock database") REST handlers of *)
(* backend/server.js.  The file holds two copies of the server; the second *)
(* copy (lines 920-2125) is the one modelled by Spec, the category         *)
(* handlers of the first copy (lines 1-918) are modelled by SpecV1.        *)
(*                                                                         *)
(* JavaScript values are tagged records (JUndef, JNum, JStr, JBool, JNaN), *)
(* numbers are integers.  A string is a TLA+ string; Spelling gives its    *)
(* characters to the operations that work on characters.                   *)
(* Fields of the stored records that no handler condition reads            *)
(* (artwork dimensions, year, image) are left out; they follow the same    *)
(* `x || default` pattern as medium.                                       *)
(***************************************************************************)
EXTENDS Integers, Sequences, FiniteSets, TLC

VARIABLES categories, artworks, last, views, hits, admins, db, uploads,
          pool, cache, users, calls

vars == <<categories, artworks, last, views, hits, admins, db, uploads,
         pool, cache, users, calls>>

\* the state of the catalogue
catalogue == <<categories, artworks, views>>

\* the state outside the mock database of server.js and the Database class
elsewhere == <<pool, cache, users, calls>>

(***************************************************************************)
(* Bounds of the model                                                     *)
(***************************************************************************)
\* POST /api/categories is explored while the store holds fewer categories
MaxCategories == 5
\* POST /api/artworks is explored while the store holds fewer artworks
MaxArtworks == 6
\* number of successful GET /api/artworks/:id explored in one behaviour
MaxViews == 2
\* most rows of the admins table
MaxAdmins == 3

(***************************************************************************)
(* JavaScript values                                                       *)
(***************************************************************************)
JUndef == [t |-> "undefined", n |-> 0, s |-> "", b |-> FALSE]
JNaN == [t |-> "NaN", n |-> 0, s |-> "", b |-> FALSE]
JNum(k) == [t |-> "number", n |-> k, s |-> "", b |-> FALSE]
JStr(str) == [t |-> "string", n |-> 0, s |-> str, b |-> FALSE]
JBool(v) == [t |-> "boolean", n |-> 0, s |-> "", b |-> v]
JNull == [t |-> "null", n |-> 0, s |-> "", b |-> FALSE]
\* an object literal; its content is the record o
JObj(o) == [t |-> "object", o |-> o]
\* a string constant of the source (error code), kept as a TLA+ string
JCode(c) == [t |-> "code", c |-> c]

\* ToBoolean: undefined, null, NaN, 0, "" and false are falsy
Truthy(v) ==
  CASE v.t = "undefined" -> FALSE
    [] v.t = "null" -> FALSE
    [] v.t = "object" -> TRUE
    [] v.t = "code" -> v.c # ""
    [] v.t = "NaN" -> FALSE
    [] v.t = "number" -> v.n # 0
    [] v.t = "string" -> v.s # ""
    [] v.t = "boolean" -> v.b

\* the characters of the strings the model uses
Spelling ==
     ("Paintings" :> <<"P","a","i","n","t","i","n","g","s">>)
  @@ ("Sculptures" :> <<"S","c","u","l","p","t","u","r","e","s">>)
  @@ ("Digital Art" :> <<"D","i","g","i","t","a","l"," ","A","r","t">>)
  @@ ("Photography" :> <<"P","h","o","t","o","g","r","a","p","h","y">>)
  @@ ("PHOTOGRAPHY" :> <<"P","H","O","T","O","G","R","A","P","H","Y">>)
  @@ ("Prints" :> <<"P","r","i","n","t","s">>)
  @@ ("Beautiful" :> <<"B","e","a","u","t","i","f","u","l">>)
  @@ ("Three-dimensional" :> <<"T","h","r","e","e","-","d","i","m","e","n","s","i","o","n","a","l">>)
  @@ ("Modern" :> <<"M","o","d","e","r","n">>)
  @@ ("Captured" :> <<"C","a","p","t","u","r","e","d">>)
  @@ ("Sunset Over Marrakech" :> <<"S","u","n","s","e","t"," ","O","v","e","r"," ","M","a","r","r","a","k","e","c","h">>)
  @@ ("Modern Harmony" :> <<"M","o","d","e","r","n"," ","H","a","r","m","o","n","y">>)
  @@ ("Atlas Mountains Vista" :> <<"A","t","l","a","s"," ","M","o","u","n","t","a","i","n","s"," ","V","i","s","t","a">>)
  @@ ("Digital Mosque" :> <<"D","i","g","i","t","a","l"," ","M","o","s","q","u","e">>)
  @@ ("Casablanca Streets" :> <<"C","a","s","a","b","l","a","n","c","a"," ","S","t","r","e","e","t","s">>)
  @@ ("A breathtaking" :> <<"A"," ","b","r","e","a","t","h","t","a","k","i","n","g">>)
  @@ ("A contemporary" :> <<"A"," ","c","o","n","t","e","m","p","o","r","a","r","y">>)
  @@ ("A stunning" :> <<"A"," ","s","t","u","n","n","i","n","g">>)
  @@ ("A modern" :> <<"A"," ","m","o","d","e","r","n">>)
  @@ ("A captivating" :> <<"A"," ","c","a","p","t","i","v","a","t","i","n","g">>)
  @@ ("Oil on Canvas" :> <<"O","i","l"," ","o","n"," ","C","a","n","v","a","s">>)
  @@ ("Bronze" :> <<"B","r","o","n","z","e">>)
  @@ ("Acrylic on Canvas" :> <<"A","c","r","y","l","i","c"," ","o","n"," ","C","a","n","v","a","s">>)
  @@ ("Digital Print" :> <<"D","i","g","i","t","a","l"," ","P","r","i","n","t">>)
  @@ ("" :> <<>>)
  @@ ("d" :> <<"d">>)
  @@ ("0" :> <<"0">>)
  @@ ("1" :> <<"1">>)
  @@ ("2" :> <<"2">>)
  @@ ("3" :> <<"3">>)
  @@ ("4" :> <<"4">>)
  @@ ("5" :> <<"5">>)
  @@ ("6" :> <<"6">>)
  @@ ("7" :> <<"7">>)
  @@ ("9" :> <<"9">>)
  @@ ("12abc" :> <<"1","2","a","b","c">>)
  @@ ("canvas" :> <<"c","a","n","v","a","s">>)
  @@ (" Prints " :> <<" ","P","r","i","n","t","s"," ">>)
  @@ ("Sunset Dreams" :> <<"S","u","n","s","e","t"," ","D","r","e","a","m","s">>)
  @@ ("A beautiful" :> <<"A"," ","b","e","a","u","t","i","f","u","l">>)
  @@ ("a.png" :> <<"a",".","p","n","g">>)
  @@ ("A.PNG" :> <<"A",".","P","N","G">>)
  @@ ("a.txt" :> <<"a",".","t","x","t">>)
  @@ ("a.jpgx" :> <<"a",".","j","p","g","x">>)
  @@ ("png" :> <<"p","n","g">>)
  @@ ("image/png" :> <<"i","m","a","g","e","/","p","n","g">>)
  @@ ("text/plain" :> <<"t","e","x","t","/","p","l","a","i","n">>)
  @@ ("ahmed.benali@example.com" :> <<"a","h","m","e","d",".","b","e","n","a","l","i","@","e","x","a","m","p","l","e",".","c","o","m">>)
  @@ ("fatima.elidrissi@example.com" :> <<"f","a","t","i","m","a",".","e","l","i","d","r","i","s","s","i","@","e","x","a","m","p","l","e",".","c","o","m">>)
  @@ ("omar.alami@example.com" :> <<"o","m","a","r",".","a","l","a","m","i","@","e","x","a","m","p","l","e",".","c","o","m">>)
  @@ ("aicha.mansouri@example.com" :> <<"a","i","c","h","a",".","m","a","n","s","o","u","r","i","@","e","x","a","m","p","l","e",".","c","o","m">>)
  @@ ("AHMED.BENALI@example.com" :> <<"A","H","M","E","D",".","B","E","N","A","L","I","@","e","x","a","m","p","l","e",".","c","o","m">>)
  @@ ("new@example.com" :> <<"n","e","w","@","e","x","a","m","p","l","e",".","c","o","m">>)
  @@ ("New@Example.com" :> <<"N","e","w","@","E","x","a","m","p","l","e",".","c","o","m">>)

\* String.prototype.trim, worked out once for every string of the model:
\* the string spelled by the characters left when the blanks at both ends
\* are taken away
Trimmed ==
  LET TrimChars(cs) ==
        IF \A i \in 1..Len(cs) : cs[i] = " " THEN <<>>
        ELSE LET first == CHOOSE i \in 1..Len(cs) :
                             cs[i] # " " /\ \A j \in 1..(i - 1) : cs[j] = " "
                 final == CHOOSE i \in 1..Len(cs) :
                             cs[i] # " " /\ \A j \in (i + 1)..Len(cs) : cs[j] = " "
             IN SubSeq(cs, first, final)
      FromChars(cs) == CHOOSE str \in DOMAIN Spelling : Spelling[str] = cs
  IN [str \in DOMAIN Spelling |-> FromChars(TrimChars(Spelling[str]))]

\* the lower-case letter of every upper-case letter
LowerOf ==
  LET UpperChars == <<"A","B","C","D","E","F","G","H","I","J","K","L","M",
                      "N","O","P","Q","R","S","T","U","V","W","X","Y","Z">>
      LowerChars == <<"a","b","c","d","e","f","g","h","i","j","k","l","m",
                      "n","o","p","q","r","s","t","u","v","w","x","y","z">>
  IN [c \in {UpperChars[i] : i \in 1..26} |->
        LowerChars[CHOOSE i \in 1..26 : UpperChars[i] = c]]

ToLowerChar(c) == IF c \in DOMAIN LowerOf THEN LowerOf[c] ELSE c

\* String.prototype.toLowerCase: the characters of str in lower case,
\* worked out once for every string of the model
LowerCased ==
  [str \in DOMAIN Spelling |->
     [i \in 1..Len(Spelling[str]) |-> ToLowerChar(Spelling[str][i])]]

\* String.prototype.includes on sequences of characters
Includes(str, sub) ==
  \E i \in 0..(Len(str) - Len(sub)) :
     \A j \in 1..Len(sub) : str[i + j] = sub[j]

\* the value of every decimal digit
DigitValue ==
  LET DigitChars == <<"0","1","2","3","4","5","6","7","8","9">>
  IN [c \in {DigitChars[i] : i \in 1..10} |->
        (CHOOSE i \in 1..10 : DigitChars[i] = c) - 1]

\* length of the longest prefix of str made of decimal digits
DigitPrefixLen(str) ==
  CHOOSE k \in 0..Len(str) :
     /\ \A i \in 1..k : (str[i] \in DOMAIN DigitValue)
     /\ (k = Len(str) \/ ~(str[k + 1] \in DOMAIN DigitValue))

RECURSIVE DigitsValue(_, _)
DigitsValue(str, k) ==
  IF k = 0 THEN 0 ELSE DigitsValue(str, k - 1) * 10 + DigitValue[str[k]]

\* the number a string starts with: the value of its leading digits, NaN
\* when it starts with none; worked out once for every string of the model
LeadingNumber ==
  [str \in DOMAIN Spelling |->
     IF DigitPrefixLen(Spelling[str]) = 0 THEN JNaN
     ELSE JNum(DigitsValue(Spelling[str], DigitPrefixLen(Spelling[str])))]

\* parseInt: a number is returned as it is (the model's numbers are
\* integers), a string yields the value of its leading digits or NaN,
\* anything else NaN.  Signs, blanks and the 0x prefix are outside the
\* inputs explored.
ParseInt(v) ==
  CASE v.t = "number" -> v
    [] v.t = "string" -> LeadingNumber[v.s]
    [] OTHER -> JNaN

\* parseFloat: on integers and on strings without a decimal point it reads
\* the same leading digits as parseInt
ParseFloat(v) ==
  CASE v.t = "number" -> v
    [] v.t = "string" -> LeadingNumber[v.s]
    [] OTHER -> JNaN

\* `x === parseInt(y)` for a stored integer x
StrictEqInt(x, p) == p.t = "number" /\ p.n = x

\* Math.max(...ids, 0)
RECURSIVE MaxOf(_)
MaxOf(S) ==
  IF S = {} THEN 0
  ELSE LET x == CHOOSE y \in S : TRUE
           m == MaxOf(S \ {x})
       IN IF x > m THEN x ELSE m

Indices(seq) == 1..Len(seq)
Elems(seq) == {seq[i] : i \in Indices(seq)}

\* Array.prototype.filter: the elements x with keep[x], in their order
FilterSeq(seq, keep) ==
  LET kept == {i \in Indices(seq) : keep[seq[i]]}
  IN [k \in 1..Cardinality(kept) |->
        seq[CHOOSE i \in kept : Cardinality({j \in kept : j <= i}) = k]]

\* Array.prototype.findIndex: the index of the first element x with
\* test[x], 0 for "not found" (-1 in JavaScript)
FindIndex(seq, test) ==
  IF \E i \in Indices(seq) : test[seq[i]]
  THEN CHOOSE i \in Indices(seq) :
          test[seq[i]] /\ \A j \in 1..(i - 1) : ~test[seq[j]]
  ELSE 0

\* Array.prototype.splice(index, 1)
Splice(seq, i) == [k \in 1..(Len(seq) - 1) |-> IF k < i THEN seq[k] ELSE seq[k + 1]]

\* Array.prototype.sort (stable) for a comparator that puts x before y
\* exactly when before[x, y]: an element keeps its place among its equals
StableSort(seq, before) ==
  LET Rank(i) == 1 + Cardinality({j \in Indices(seq) :
                       \/ before[seq[j], seq[i]]
                       \/ (~before[seq[i], seq[j]] /\ j < i)})
  IN [k \in Indices(seq) |-> seq[CHOOSE i \in Indices(seq) : Rank(i) = k]]

(***************************************************************************)
(* Mock database of the second copy of server.js                           *)
(***************************************************************************)
\* time of the process start, the createdAt of every seeded record
StartTime == 0
\* a record that was never updated carries no updatedAt
NoTime == -1

\* descriptions are shortened to their first word
Category(id, name, description, color, sortOrder, artworkCount) ==
  [id |-> id, name |-> JStr(name), description |-> JStr(description),
   color |-> JStr(color), isActive |-> JBool(TRUE), sortOrder |-> sortOrder,
   createdAt |-> StartTime, updatedAt |-> NoTime, artworkCount |-> artworkCount]

SeedCategories ==
  << Category(1, "Paintings", "Beautiful", "#FF6B6B", 1, 4),
     Category(2, "Sculptures", "Three-dimensional", "#4ECDC4", 2, 2),
     Category(3, "Digital Art", "Modern", "#45B7D1", 3, 3),
     Category(4, "Photography", "Captured", "#96CEB4", 4, 2) >>

Artwork(id, name, description, price, originalPrice, medium, status, isFeatured, categoryId, viewCount) ==
  [id |-> id, name |-> JStr(name), description |-> JStr(description),
   price |-> JNum(price), originalPrice |-> originalPrice,
   medium |-> JStr(medium), status |-> JStr(status),
   isActive |-> JBool(TRUE), isFeatured |-> JBool(isFeatured),
   categoryId |-> categoryId, viewCount |-> viewCount,
   createdAt |-> StartTime, updatedAt |-> StartTime]

\* names are kept in full, descriptions shortened to their first words
SeedArtworks ==
  << Artwork(1, "Sunset Over Marrakech", "A breathtaking", 1200, JNum(1500),
             "Oil on Canvas", "AVAILABLE", TRUE, 1, 45),
     Artwork(2, "Modern Harmony", "A contemporary", 2500, JUndef,
             "Bronze", "AVAILABLE", FALSE, 2, 23),
     Artwork(3, "Atlas Mountains Vista", "A stunning", 950, JUndef,
             "Acrylic on Canvas", "AVAILABLE", TRUE, 1, 67),
     Artwork(4, "Digital Mosque", "A modern", 650, JUndef,
             "Digital Print", "AVAILABLE", FALSE, 3, 34),
     Artwork(5, "Casablanca Streets", "A captivating", 450, JUndef,
             "Photography", "SOLD", FALSE, 4, 89) >>

\* const admins: the one administrator of the mock database
SeedAdmins ==
  << [id |-> 1, username |-> JStr("admin"), email |-> JStr("admin@elouarate.com"),
      passwordHash |-> JStr("Admin123!"), isActive |-> JBool(TRUE),
      role |-> JStr("ADMIN"), createdAt |-> StartTime, lastLogin |-> JNull] >>

\* const users: the customers of the mock database; ids are strings
SeedUsers ==
  << [id |-> "1", firstName |-> JStr("Ahmed"), lastName |-> JStr("Benali"),
      email |-> JStr("ahmed.benali@example.com"), isActive |-> JBool(TRUE),
      isEmailVerified |-> JBool(TRUE), createdAt |-> StartTime,
      updatedAt |-> StartTime],
     [id |-> "2", firstName |-> JStr("Fatima"), lastName |-> JStr("El Idrissi"),
      email |-> JStr("fatima.elidrissi@example.com"), isActive |-> JBool(TRUE),
      isEmailVerified |-> JBool(TRUE), createdAt |-> StartTime,
      updatedAt |-> StartTime],
     [id |-> "3", firstName |-> JStr("Omar"), lastName |-> JStr("Alami"),
      email |-> JStr("omar.alami@example.com"), isActive |-> JBool(FALSE),
      isEmailVerified |-> JBool(FALSE), createdAt |-> StartTime,
      updatedAt |-> StartTime],
     [id |-> "4", firstName |-> JStr("Aicha"), lastName |-> JStr("Mansouri"),
      email |-> JStr("aicha.mansouri@example.com"), isActive |-> JBool(TRUE),
      isEmailVerified |-> JBool(TRUE), createdAt |-> StartTime,
      updatedAt |-> StartTime] >>

(***************************************************************************)
(* Response envelope and the record of the last exchange                   *)
(***************************************************************************)
\* what JSON.stringify writes for an object or a string constant
Content(v) == IF v.t = "object" THEN v.o ELSE v.c

\* an envelope that always carries its data and error fields, null if unset
FormatResponseAllFields(success, data, message, error, now) ==
  [success |-> success, message |-> message, timestamp |-> now,
   data |-> IF Truthy(data) THEN Content(data) ELSE JNull,
   error |-> IF Truthy(error) THEN Content(error) ELSE JNull]

\* formatResponse(success, data, message, error); the timestamp is the
\* clock reading `now`
FormatResponse(success, data, message, error, now) ==
  [success |-> success, message |-> message, timestamp |-> now]
    @@ (IF Truthy(data) THEN [data |-> Content(data)] ELSE <<>>)
    @@ (IF Truthy(error) THEN [error |-> Content(error)] ELSE <<>>)

\* res.status(status).json(body) answering request req of operation op;
\* prev remembers which exchange came before this one
Answer(op, req, status, body) ==
  last' = [op |-> op, req |-> req, status |-> status, body |-> body,
           prev |-> [op |-> last.op, status |-> last.status]]

\* the answer of a handler of the catalogue, reached below the limit of
\* the rate limiter, whose count is left aside
Respond(op, req, status, body) ==
  /\ Answer(op, req, status, body)
  /\ UNCHANGED <<hits, admins, db, uploads, elsewhere>>

(***************************************************************************)
(* Categories API (second copy of server.js)                               *)
(***************************************************************************)
\* a list handler that answers from a copy taken at start-up
ActiveCategoriesStale(cats) ==
  LET active == FilterSeq(SeedCategories,
                  [cat \in Elems(SeedCategories) |-> Truthy(cat.isActive)])
  IN StableSort(active,
       [a \in Elems(active), b \in Elems(active) |-> a.sortOrder < b.sortOrder])

\* categories.filter(cat => cat.isActive).sort((a, b) => a.sortOrder - b.sortOrder)
ActiveCategories(cats) ==
  LET active == FilterSeq(cats, [cat \in Elems(cats) |-> Truthy(cat.isActive)])
  IN StableSort(active,
       [a \in Elems(active), b \in Elems(active) |-> a.sortOrder < b.sortOrder])

\* GET /api/categories
GetCategories(r) ==
  /\ Respond("GET /api/categories", r, 200,
        FormatResponse(TRUE,
          JObj([categories |-> ActiveCategories(categories),
                total |-> Len(ActiveCategories(categories))]),
          "Categories retrieved successfully", JNull, r.now))
  /\ UNCHANGED <<categories, artworks, views>>

\* the record POST /api/categories builds
NewCategory(cats, r) ==
  [id |-> MaxOf({cats[i].id : i \in Indices(cats)}) + 1,
   name |-> r.name,
   description |-> r.description,
   color |-> IF Truthy(r.color) THEN r.color ELSE JStr("#667eea"),
   isActive |-> JBool(TRUE),
   sortOrder |-> Len(cats) + 1,
   createdAt |-> r.now,
   updatedAt |-> NoTime,
   artworkCount |-> 0]

\* POST /api/categories
PostCategory(r) ==
  /\ UNCHANGED <<artworks, views>>
  /\ IF ~Truthy(r.name) \/ ~Truthy(r.description)
     THEN /\ Respond("POST /api/categories", r, 400,
               FormatResponse(FALSE, JNull,
                 "Category name and description are required",
                 JCode("VALIDATION_ERROR"), r.now))
          /\ UNCHANGED categories
     ELSE IF (FindIndex(categories, [cat \in Elems(categories) |->
                 LowerCased[cat.name.s] = LowerCased[r.name.s] /\ Truthy(cat.isActive)])) # 0
     THEN /\ Respond("POST /api/categories", r, 409,
               FormatResponse(FALSE, JNull,
                 "Category with this name already exists",
                 JCode("CATEGORY_EXISTS"), r.now))
          /\ UNCHANGED categories
     ELSE /\ Len(categories) < MaxCategories
          /\ categories' = Append(categories, NewCategory(categories, r))
          /\ Respond("POST /api/categories", r, 201,
               FormatResponse(TRUE,
                 JObj([category |-> NewCategory(categories, r)]),
                 "Category created successfully", JNull, r.now))

\* categories.findIndex(cat => cat.id === parseInt(id)), 0 when not found
CategoryIndex(cats, id) ==
  FindIndex(cats, [cat \in Elems(cats) |-> StrictEqInt(cat.id, ParseInt(id))])

\* PUT /api/categories/:id
PutCategory(r) ==
  /\ UNCHANGED <<artworks, views>>
  /\ IF CategoryIndex(categories, r.id) = 0
     THEN /\ Respond("PUT /api/categories/:id", r, 404,
               FormatResponse(FALSE, JNull, "Category not found",
                 JCode("CATEGORY_NOT_FOUND"), r.now))
          /\ UNCHANGED categories
     ELSE IF Truthy(r.name) /\ (FindIndex(categories, [cat \in Elems(categories) |->
                                   /\ LowerCased[cat.name.s] = LowerCased[r.name.s]
                                   /\ ~StrictEqInt(cat.id, ParseInt(r.id))
                                   /\ Truthy(cat.isActive)])) # 0
     THEN /\ Respond("PUT /api/categories/:id", r, 409,
               FormatResponse(FALSE, JNull,
                 "Another category with this name already exists",
                 JCode("CATEGORY_EXISTS"), r.now))
          /\ UNCHANGED categories
     ELSE LET i == CategoryIndex(categories, r.id)
              updatedCategory == ([categories[i] EXCEPT
                                     !.name = IF Truthy(r.name) THEN r.name ELSE @,
                                     !.description = IF Truthy(r.description) THEN r.description ELSE @,
                                     !.color = IF Truthy(r.color) THEN r.color ELSE @,
                                     !.isActive = IF r.isActive # JUndef THEN r.isActive ELSE @,
                                     !.updatedAt = r.now])
          IN /\ categories' = [categories EXCEPT ![i] = updatedCategory]
             /\ Respond("PUT /api/categories/:id", r, 200,
                  FormatResponse(TRUE, JObj([category |-> updatedCategory]),
                    "Category updated successfully", JNull, r.now))

\* a check that also counts the artworks that are not active
CategoryArtworksAll(arts, id) ==
  FilterSeq(arts, [art \in Elems(arts) |->
     StrictEqInt(art.categoryId, ParseInt(id))])

\* DELETE: artworks.filter(art => art.categoryId === parseInt(id) && art.isActive)
CategoryArtworks(arts, id) ==
  FilterSeq(arts, [art \in Elems(arts) |->
     StrictEqInt(art.categoryId, ParseInt(id)) /\ Truthy(art.isActive)])

\* DELETE /api/categories/:id
DeleteCategory(r) ==
  /\ UNCHANGED <<artworks, views>>
  /\ IF CategoryIndex(categories, r.id) = 0
     THEN /\ Respond("DELETE /api/categories/:id", r, 404,
               FormatResponse(FALSE, JNull, "Category not found",
                 JCode("CATEGORY_NOT_FOUND"), r.now))
          /\ UNCHANGED categories
     ELSE IF Len(CategoryArtworks(artworks, r.id)) > 0
     THEN /\ Respond("DELETE /api/categories/:id", r, 409,
               FormatResponse(FALSE, JNull,
                 <<"Cannot delete category. It has ",
                   Len(CategoryArtworks(artworks, r.id)), " artwork(s)">>,
                 JCode("CATEGORY_HAS_ARTWORKS"), r.now))
          /\ UNCHANGED categories
     ELSE LET i == CategoryIndex(categories, r.id)
              deletedCategory == categories[i]
          IN /\ categories' = Splice(categories, i)
             /\ Respond("DELETE /api/categories/:id", r, 200,
                  FormatResponse(TRUE, JObj([category |-> deletedCategory]),
                    "Category deleted successfully", JNull, r.now))

(***************************************************************************)
(* Artworks API (second copy of server.js)                                 *)
(***************************************************************************)
\* { ...artwork, category }, where category is
\* categories.find(cat => cat.id === artwork.categoryId): the category
\* joined to an artwork of a response, undefined when there is none
WithCategory(cats, artwork) ==
  LET categoryId == artwork.categoryId
      category ==
        IF \E i \in Indices(cats) : cats[i].id = categoryId
        THEN JObj(cats[FindIndex(cats, [cat \in Elems(cats) |-> cat.id = categoryId])])
        ELSE JUndef
  IN artwork @@ [category |-> category]

\* default values of the destructured query: status = 'AVAILABLE',
\* limit = 50, offset = 0, sort = 'newest'
OrDefault(v, d) == IF v = JUndef THEN d ELSE v

\* a list that applies every filter but the one on the status
FilteredArtworksAnyStatus(arts, q) ==
  LET active == FilterSeq(arts, [a \in Elems(arts) |-> Truthy(a.isActive)])
      byCategory ==
        IF Truthy(q.category) /\ q.category # JStr("all")
        THEN FilterSeq(active, [a \in Elems(active) |-> StrictEqInt(a.categoryId, ParseInt(q.category))])
        ELSE active
      byFeatured ==
        IF q.featured = JStr("true")
        THEN FilterSeq(byCategory, [a \in Elems(byCategory) |-> Truthy(a.isFeatured)])
        ELSE byCategory
  IN IF Truthy(q.search)
     THEN FilterSeq(byFeatured, [a \in Elems(byFeatured) |->
            \/ Includes(LowerCased[a.name.s], LowerCased[q.search.s])
            \/ Includes(LowerCased[a.description.s], LowerCased[q.search.s])
            \/ Includes(LowerCased[a.medium.s], LowerCased[q.search.s])])
     ELSE byFeatured

\* the filters of GET /api/artworks, in the order the handler applies them
FilteredArtworks(arts, q) ==
  LET status == OrDefault(q.status, JStr("AVAILABLE"))
      active == FilterSeq(arts, [a \in Elems(arts) |-> Truthy(a.isActive)])
      byCategory ==
        IF Truthy(q.category) /\ q.category # JStr("all")
        THEN FilterSeq(active, [a \in Elems(active) |-> StrictEqInt(a.categoryId, ParseInt(q.category))])
        ELSE active
      byStatus ==
        IF Truthy(status) /\ status # JStr("ALL")
        THEN FilterSeq(byCategory, [a \in Elems(byCategory) |-> a.status = status])
        ELSE byCategory
      byFeatured ==
        IF q.featured = JStr("true")
        THEN FilterSeq(byStatus, [a \in Elems(byStatus) |-> Truthy(a.isFeatured)])
        ELSE byStatus
  IN IF Truthy(q.search)
     THEN FilterSeq(byFeatured, [a \in Elems(byFeatured) |->
            \/ Includes(LowerCased[a.name.s], LowerCased[q.search.s])
            \/ Includes(LowerCased[a.description.s], LowerCased[q.search.s])
            \/ Includes(LowerCased[a.medium.s], LowerCased[q.search.s])])
     ELSE byFeatured

\* switch (sort); a.price - b.price < 0: a comparison with NaN orders nothing
SortedArtworks(arts, q) ==
  LET sort == OrDefault(q.sort, JStr("newest"))
      PriceLess(a, b) ==
        a.price.t = "number" /\ b.price.t = "number" /\ a.price.n < b.price.n
  IN CASE sort = JStr("newest") -> StableSort(arts, [a \in Elems(arts), b \in Elems(arts) |-> a.createdAt > b.createdAt])
       [] sort = JStr("oldest") -> StableSort(arts, [a \in Elems(arts), b \in Elems(arts) |-> a.createdAt < b.createdAt])
       [] sort = JStr("price-low") -> StableSort(arts, [a \in Elems(arts), b \in Elems(arts) |-> PriceLess(a, b)])
       [] sort = JStr("price-high") -> StableSort(arts, [a \in Elems(arts), b \in Elems(arts) |-> PriceLess(b, a)])
       [] sort = JStr("popular") -> StableSort(arts, [a \in Elems(arts), b \in Elems(arts) |-> a.viewCount > b.viewCount])
       [] OTHER -> arts

\* filteredArtworks.slice(parseInt(offset), parseInt(offset) + parseInt(limit))
PaginatedArtworks(arts, offset, limit) ==
  LET hi == IF offset + limit < Len(arts) THEN offset + limit ELSE Len(arts)
      lo == IF offset < Len(arts) THEN offset ELSE Len(arts)
  IN IF hi <= lo THEN <<>> ELSE [k \in 1..(hi - lo) |-> arts[lo + k]]

\* a pagination object that also announces a next page that is empty
PaginationInclusive(total, offset, limit) ==
  [total |-> total, limit |-> limit, offset |-> offset,
   hasMore |-> offset + limit <= total,
   page |-> IF limit = 0 THEN JNull ELSE JNum((offset \div limit) + 1),
   totalPages |-> IF limit = 0 THEN JNull
                  ELSE JNum((total + limit - 1) \div limit)]

\* the pagination object; page and totalPages divide by the limit and
\* are NaN or Infinity (null in JSON) when it is 0
Pagination(total, offset, limit) ==
  [total |-> total, limit |-> limit, offset |-> offset,
   hasMore |-> offset + limit < total,
   page |-> IF limit = 0 THEN JNull ELSE JNum((offset \div limit) + 1),
   totalPages |-> IF limit = 0 THEN JNull
                  ELSE JNum((total + limit - 1) \div limit)]

\* GET /api/artworks, for limit and offset that parse to integers
GetArtworks(q) ==
  \E filteredArtworks \in {SortedArtworks(FilteredArtworks(artworks, q), q)} :
    LET limit == ParseInt(OrDefault(q.limit, JNum(50))).n
        offset == ParseInt(OrDefault(q.offset, JNum(0))).n
        total == Len(filteredArtworks)
        paginatedArtworks == PaginatedArtworks(filteredArtworks, offset, limit)
    IN /\ ParseInt(OrDefault(q.limit, JNum(50))).t = "number"
       /\ ParseInt(OrDefault(q.offset, JNum(0))).t = "number"
       /\ Respond("GET /api/artworks", q, 200,
            FormatResponse(TRUE,
              JObj([artworks |-> [k \in Indices(paginatedArtworks) |->
                                    WithCategory(categories, paginatedArtworks[k])],
                    pagination |-> Pagination(total, offset, limit)]),
              "Artworks retrieved successfully", JNull, q.now))
       /\ UNCHANGED <<categories, artworks, views>>

\* artworks.find(art => art.id === parseInt(id) && art.isActive), 0 if none
ActiveArtworkIndex(arts, id) ==
  FindIndex(arts, [art \in Elems(arts) |->
     StrictEqInt(art.id, ParseInt(id)) /\ Truthy(art.isActive)])

\* a counter that restarts instead of continuing from the stored value
ViewedFromZero(artwork) == [artwork EXCEPT !.viewCount = 1]

\* artwork.viewCount = (artwork.viewCount || 0) + 1
Viewed(artwork) == [artwork EXCEPT !.viewCount = @ + 1]

\* GET /api/artworks/:id
GetArtwork(r) ==
  /\ UNCHANGED categories
  /\ IF ActiveArtworkIndex(artworks, r.id) = 0
     THEN /\ Respond("GET /api/artworks/:id", r, 404,
               FormatResponse(FALSE, JNull, "Artwork not found",
                 JCode("ARTWORK_NOT_FOUND"), r.now))
          /\ UNCHANGED <<artworks, views>>
     ELSE LET i == ActiveArtworkIndex(artworks, r.id)
          IN /\ views < MaxViews
             /\ views' = views + 1
             /\ artworks' = [artworks EXCEPT ![i] = Viewed(@)]
             /\ Respond("GET /api/artworks/:id", r, 200,
                  FormatResponse(TRUE,
                    JObj([artwork |-> WithCategory(categories, Viewed(artworks[i]))]),
                    "Artwork retrieved successfully", JNull, r.now))

\* POST, PUT: categories.find(cat => cat.id === parseInt(categoryId) && cat.isActive)
ValidCategory(cats, categoryId) ==
  FindIndex(cats, [cat \in Elems(cats) |->
     StrictEqInt(cat.id, ParseInt(categoryId)) /\ Truthy(cat.isActive)])

\* the record POST /api/artworks builds
NewArtwork(arts, r) ==
  [id |-> MaxOf({arts[i].id : i \in Indices(arts)}) + 1,
   name |-> r.name,
   description |-> r.description,
   price |-> ParseFloat(r.price),
   originalPrice |-> IF Truthy(r.originalPrice) THEN ParseFloat(r.originalPrice) ELSE JNull,
   medium |-> IF Truthy(r.medium) THEN r.medium ELSE JStr(""),
   status |-> IF Truthy(r.status) THEN r.status ELSE JStr("AVAILABLE"),
   isActive |-> JBool(TRUE),
   isFeatured |-> IF Truthy(r.isFeatured) THEN r.isFeatured ELSE JBool(FALSE),
   categoryId |-> ParseInt(r.categoryId).n,
   viewCount |-> 0,
   createdAt |-> r.now,
   updatedAt |-> r.now]

\* POST /api/artworks
PostArtwork(r) ==
  /\ UNCHANGED <<categories, views>>
  /\ IF ~Truthy(r.name) \/ ~Truthy(r.description) \/ ~Truthy(r.price)
        \/ ~Truthy(r.categoryId)
     THEN /\ Respond("POST /api/artworks", r, 400,
               FormatResponse(FALSE, JNull,
                 "Name, description, price, and category are required",
                 JCode("VALIDATION_ERROR"), r.now))
          /\ UNCHANGED artworks
     ELSE IF ValidCategory(categories, r.categoryId) = 0
     THEN /\ Respond("POST /api/artworks", r, 400,
               FormatResponse(FALSE, JNull, "Invalid category ID",
                 JCode("INVALID_CATEGORY"), r.now))
          /\ UNCHANGED artworks
     ELSE /\ Len(artworks) < MaxArtworks
          /\ artworks' = Append(artworks, NewArtwork(artworks, r))
          /\ Respond("POST /api/artworks", r, 201,
               FormatResponse(TRUE, JObj([artwork |-> NewArtwork(artworks, r)]),
                 "Artwork created successfully", JNull, r.now))

\* artworks.findIndex(art => art.id === parseInt(id)), 0 when not found
ArtworkIndex(arts, id) ==
  FindIndex(arts, [art \in Elems(arts) |-> StrictEqInt(art.id, ParseInt(id))])

\* PUT /api/artworks/:id
PutArtwork(r) ==
  /\ UNCHANGED <<categories, views>>
  /\ IF ArtworkIndex(artworks, r.id) = 0
     THEN /\ Respond("PUT /api/artworks/:id", r, 404,
               FormatResponse(FALSE, JNull, "Artwork not found",
                 JCode("ARTWORK_NOT_FOUND"), r.now))
          /\ UNCHANGED artworks
     ELSE IF Truthy(r.categoryId) /\ ValidCategory(categories, r.categoryId) = 0
     THEN /\ Respond("PUT /api/artworks/:id", r, 400,
               FormatResponse(FALSE, JNull, "Invalid category ID",
                 JCode("INVALID_CATEGORY"), r.now))
          /\ UNCHANGED artworks
     ELSE LET i == ArtworkIndex(artworks, r.id)
              updatedArtwork == ([artworks[i] EXCEPT
                                    !.name = IF Truthy(r.name) THEN r.name ELSE @,
                                    !.description = IF Truthy(r.description) THEN r.description ELSE @,
                                    !.price = IF Truthy(r.price) THEN ParseFloat(r.price) ELSE @,
                                    !.originalPrice =
                                       IF r.originalPrice # JUndef
                                       THEN (IF Truthy(r.originalPrice) THEN ParseFloat(r.originalPrice) ELSE JNull)
                                       ELSE @,
                                    !.medium = IF Truthy(r.medium) THEN r.medium ELSE @,
                                    !.categoryId = IF Truthy(r.categoryId) THEN ParseInt(r.categoryId).n ELSE @,
                                    !.status = IF Truthy(r.status) THEN r.status ELSE @,
                                    !.isFeatured = IF r.isFeatured # JUndef THEN r.isFeatured ELSE @,
                                    !.isActive = IF r.isActive # JUndef THEN r.isActive ELSE @,
                                    !.updatedAt = r.now])
          IN /\ artworks' = [artworks EXCEPT ![i] = updatedArtwork]
             /\ Respond("PUT /api/artworks/:id", r, 200,
                  FormatResponse(TRUE, JObj([artwork |-> updatedArtwork]),
                    "Artwork updated successfully", JNull, r.now))

\* DELETE /api/artworks/:id
DeleteArtwork(r) ==
  /\ UNCHANGED <<categories, views>>
  /\ IF ArtworkIndex(artworks, r.id) = 0
     THEN /\ Respond("DELETE /api/artworks/:id", r, 404,
               FormatResponse(FALSE, JNull, "Artwork not found",
                 JCode("ARTWORK_NOT_FOUND"), r.now))
          /\ UNCHANGED artworks
     ELSE LET i == ArtworkIndex(artworks, r.id)
              deletedArtwork == artworks[i]
          IN /\ artworks' = Splice(artworks, i)
             /\ Respond("DELETE /api/artworks/:id", r, 200,
                  FormatResponse(TRUE, JObj([artwork |-> deletedArtwork]),
                    "Artwork deleted successfully", JNull, r.now))

(***************************************************************************)
(* Initial state and requests explored                                     *)
(***************************************************************************)
\* the database and the one call of Database.transaction: rows are the
\* committed writes, pending the writes of the open transaction, batch the
\* queries of the callback, queries those still to run, issued the
\* statements sent so far, error the error caught, thrown the error
\* thrown to the caller, connects the clients the running or last operation
\* took from the pool and releases its calls of client.release()
NoTransaction ==
  [rows |-> {}, before |-> {}, pending |-> {}, pc |-> "idle", batch |-> <<>>,
   queries |-> <<>>, issued |-> <<>>, error |-> "", thrown |-> "",
   outcome |-> "none", connects |-> 0, releases |-> 0]

\* the resource cache before anything was fetched: both keys EMPTY.  now is
\* the clock in minutes, store the number of writes each resource type has
\* seen, which stands for its content
EmptyCache ==
  [now |-> 0,
   store |-> [key \in {"categories", "artworks"} |-> 0],
   entries |-> [key \in {"categories", "artworks"} |->
                  [present |-> FALSE, data |-> 0, lastFetched |-> 0]]]

\* no call of AdminService.authenticateAdmin is running; missing is what the
\* SELECT of ensureAdminSetup found, result how the call ended
NoCalls == [p \in {1, 2} |-> [pc |-> "idle", missing |-> FALSE, result |-> "none"]]

NoRequest == [op |-> "START", req |-> <<>>, status |-> 0, body |-> <<>>,
              prev |-> [op |-> "START", status |-> 0]]

Init ==
  /\ categories = SeedCategories
  /\ artworks = SeedArtworks
  /\ last = NoRequest
  /\ views = 0
  /\ hits = 0
  /\ admins = SeedAdmins
  /\ db = NoTransaction
  /\ uploads = {}
  /\ pool = [created |-> FALSE, out |-> 0, dbOut |-> 0]
  /\ cache = EmptyCache
  /\ users = SeedUsers
  /\ calls = NoCalls

\* Authorization headers: a bearer token, none, one that is no bearer token
Bearer == JStr("Bearer t")


\* bodies of POST /api/categories
PostCategoryRequests(auths, names, descriptions) ==
  [authorization : auths, name : names, description : descriptions,
   color : {JUndef}, now : {1}]

\* PUT /api/categories/:id
PutCategoryRequests(auths, ids, names, isActives) ==
  [authorization : auths, id : ids, name : names, description : {JUndef},
   color : {JUndef}, isActive : isActives, now : {1}]

\* DELETE /api/categories/:id
DeleteCategoryRequests(auths, ids) ==
  [authorization : auths, id : ids, now : {1}]

\* query strings of GET /api/artworks
GetArtworksRequests(cats, statuses, featureds, limits, offsets, searches, sorts) ==
  [category : cats, status : statuses, featured : featureds,
   limit : limits, offset : offsets, search : searches, sort : sorts,
   now : {1}]

\* bodies of POST /api/artworks
PostArtworkRequests(auths, descriptions, prices, categoryIds, statuses, times) ==
  [authorization : auths, name : {JStr("Prints")}, description : descriptions,
   price : prices, originalPrice : {JUndef}, medium : {JUndef},
   categoryId : categoryIds, status : statuses, isFeatured : {JUndef},
   now : times]

\* PUT /api/artworks/:id
PutArtworkRequests(auths, ids, categoryIds, statuses, isActives) ==
  [authorization : auths, id : ids, name : {JUndef}, description : {JUndef},
   price : {JUndef}, originalPrice : {JUndef}, medium : {JUndef},
   categoryId : categoryIds, status : statuses, isFeatured : {JUndef},
   isActive : isActives, now : {1}]

\* DELETE /api/artworks/:id
DeleteArtworkRequests(auths, ids) ==
  [authorization : auths, id : ids, now : {1}]

(***************************************************************************)
(* Spec: the categories API on the seeded store                            *)
(***************************************************************************)
Next ==
  \/ \E r \in [now : {1}] : GetCategories(r)
  \/ \E r \in PostCategoryRequests({Bearer},
                 {JUndef, JStr("PHOTOGRAPHY"), JStr("Prints")},
                 {JUndef, JStr("d")}) : PostCategory(r)
  \/ \E r \in PutCategoryRequests({Bearer}, {JStr("4"), JStr("5")},
                 {JUndef, JStr("PHOTOGRAPHY"), JStr("Prints")},
                 {JUndef, JBool(TRUE), JBool(FALSE)}) : PutCategory(r)
  \/ \E r \in DeleteCategoryRequests({Bearer}, {JStr("4"), JStr("5")}) :
        DeleteCategory(r)

Spec == Init /\ [][Next]_vars

(***************************************************************************)
(* SpecV1: the categories API of the first copy of server.js               *)
(***************************************************************************)
\* the mock database of the first copy: categories carry no artworkCount,
\* artworks no updatedAt
InitV1 ==
  /\ categories =
       [i \in 1..4 |->
          [f \in DOMAIN SeedCategories[i] \ {"artworkCount"} |-> SeedCategories[i][f]]]
  /\ artworks =
       << [Artwork(1, "Sunset Dreams", "A beautiful", 1200, JNum(1500),
                   "Oil on Canvas", "AVAILABLE", TRUE, 1, 0)
             EXCEPT !.updatedAt = NoTime],
          [Artwork(2, "Modern Harmony", "A contemporary", 2500, JUndef,
                   "Bronze", "AVAILABLE", FALSE, 2, 0)
             EXCEPT !.updatedAt = NoTime] >>
  /\ last = NoRequest
  /\ views = 0
  /\ hits = 0
  /\ admins = SeedAdmins
  /\ db = NoTransaction
  /\ uploads = {}
  /\ pool = [created |-> FALSE, out |-> 0, dbOut |-> 0]
  /\ cache = EmptyCache
  /\ users = SeedUsers
  /\ calls = NoCalls

\* formatResponse of the first copy: meta is added when it has keys
FormatResponseV1(success, data, message, error, meta, now) ==
  [success |-> success, message |-> message, timestamp |-> now]
    @@ (IF Truthy(data) THEN [data |-> Content(data)] ELSE <<>>)
    @@ (IF Truthy(error) THEN [error |-> Content(error)] ELSE <<>>)
    @@ (IF DOMAIN meta # {} THEN [meta |-> meta] ELSE <<>>)

\* body('name').trim().isLength({ min: 1, max: 100 })
NameValid(name) ==
  /\ name.t = "string"
  /\ Len(Spelling[Trimmed[name.s]]) >= 1
  /\ Len(Spelling[Trimmed[name.s]]) <= 100

\* the sanitizer of the chain: req.body.name is replaced by its trimmed form
Sanitized(r) == [r EXCEPT !.name = IF @.t = "string" THEN JStr(Trimmed[@.s]) ELSE @]

\* validateRequest answering 400 with the VALIDATION_ERROR object
ValidationFailed(op, r) ==
  Respond(op, r, 400,
    FormatResponseV1(FALSE, JNull, "Validation failed",
      JObj([type |-> "VALIDATION_ERROR", details |-> <<"name">>]), <<>>, r.now))

\* the record POST /api/categories builds; b is the sanitized body.
\* Math.max(...ids) has no 0 among its arguments here: on an empty store it
\* is -Infinity, and so is -Infinity + 1.  -Infinity is written as a number
\* below every id a request can name
NewCategoryV1(cats, b) ==
  [id |-> LET ids == {cats[i].id : i \in Indices(cats)}
              negInfinity == -1000
              max == IF ids = {} THEN negInfinity
                     ELSE CHOOSE m \in ids : \A y \in ids : y <= m
          IN IF max = negInfinity THEN negInfinity ELSE max + 1,
   name |-> JStr(Trimmed[b.name.s]),
   description |-> IF Truthy(b.description) THEN JStr(Trimmed[b.description.s])
                   ELSE JStr(""),
   color |-> IF b.color = JUndef THEN JStr("#6366f1") ELSE b.color,
   isActive |-> JBool(TRUE),
   sortOrder |-> Len(cats) + 1,
   createdAt |-> b.now,
   updatedAt |-> NoTime]

\* POST /api/categories (first copy); description and color are optional
\* and within their limits in every request explored
PostCategoryV1(r) ==
  /\ UNCHANGED <<artworks, views>>
  /\ IF ~NameValid(r.name)
     THEN /\ ValidationFailed("POST /api/categories", r)
          /\ UNCHANGED categories
     ELSE IF (FindIndex(categories, [cat \in Elems(categories) |->
                 LowerCased[cat.name.s] = LowerCased[Sanitized(r).name.s]])) # 0
     THEN /\ Respond("POST /api/categories", r, 409,
               FormatResponseV1(FALSE, JNull, "Category already exists",
                 JCode("CATEGORY_EXISTS"), <<>>, r.now))
          /\ UNCHANGED categories
     ELSE /\ Len(categories) < MaxCategories
          /\ categories' = Append(categories, NewCategoryV1(categories, Sanitized(r)))
          /\ Respond("POST /api/categories", r, 201,
               FormatResponseV1(TRUE,
                 JObj([category |-> NewCategoryV1(categories, Sanitized(r))]),
                 "Category created successfully", JNull, <<>>, r.now))

\* { ...categories[categoryIndex], ...req.body, updatedAt }: every field the
\* body carries replaces the stored one, an id (b.bodyId) among them
UpdatedCategoryV1(cat, b) ==
  [cat EXCEPT
     !.id = IF (b @@ [bodyId |-> JUndef]).bodyId # JUndef THEN b.bodyId.n ELSE @,
     !.name = IF b.name # JUndef THEN b.name ELSE @,
     !.description = IF b.description # JUndef THEN b.description ELSE @,
     !.color = IF b.color # JUndef THEN b.color ELSE @,
     !.isActive = IF b.isActive # JUndef THEN b.isActive ELSE @,
     !.updatedAt = b.now]

\* PUT /api/categories/:id (first copy); name is optional
PutCategoryV1(r) ==
  /\ UNCHANGED <<artworks, views>>
  /\ IF r.name # JUndef /\ ~NameValid(r.name)
     THEN /\ ValidationFailed("PUT /api/categories/:id", r)
          /\ UNCHANGED categories
     ELSE IF CategoryIndex(categories, r.id) = 0
     THEN /\ Respond("PUT /api/categories/:id", r, 404,
               FormatResponseV1(FALSE, JNull, "Category not found",
                 JCode("CATEGORY_NOT_FOUND"), <<>>, r.now))
          /\ UNCHANGED categories
     ELSE LET i == CategoryIndex(categories, r.id)
              updatedCategory == UpdatedCategoryV1(categories[i], Sanitized(r))
          IN /\ categories' = [categories EXCEPT ![i] = updatedCategory]
             /\ Respond("PUT /api/categories/:id", r, 200,
                  FormatResponseV1(TRUE, JObj([category |-> updatedCategory]),
                    "Category updated successfully", JNull, <<>>, r.now))

\* DELETE /api/categories/:id (first copy)
DeleteCategoryV1(r) ==
  /\ UNCHANGED <<artworks, views>>
  /\ IF CategoryIndex(categories, r.id) = 0
     THEN /\ Respond("DELETE /api/categories/:id", r, 404,
               FormatResponseV1(FALSE, JNull, "Category not found",
                 JCode("CATEGORY_NOT_FOUND"), <<>>, r.now))
          /\ UNCHANGED categories
     ELSE /\ categories' = Splice(categories, CategoryIndex(categories, r.id))
          /\ Respond("DELETE /api/categories/:id", r, 200,
               FormatResponseV1(TRUE, JNull, "Category deleted successfully",
                 JNull, <<>>, r.now))

\* GET /api/categories (first copy)
GetCategoriesV1(r) ==
  /\ Respond("GET /api/categories", r, 200,
        FormatResponseV1(TRUE,
          JObj([categories |-> ActiveCategories(categories),
                total |-> Len(ActiveCategories(categories))]),
          "Categories retrieved successfully", JNull, <<>>, r.now))
  /\ UNCHANGED <<categories, artworks, views>>

NextV1 ==
  \/ \E r \in [now : {1}] : GetCategoriesV1(r)
  \/ \E r \in PostCategoryRequests({Bearer},
                 {JUndef, JStr("PHOTOGRAPHY"), JStr(" Prints ")},
                 {JStr("d")}) : PostCategoryV1(r)
  \/ \E r \in PutCategoryRequests({Bearer}, {JStr("3"), JStr("5")},
                 {JUndef, JStr("PHOTOGRAPHY"), JStr("")},
                 {JUndef, JBool(FALSE)}) : PutCategoryV1(r)
  \/ \E r \in DeleteCategoryRequests({Bearer}, {JStr("5")}) :
        DeleteCategoryV1(r)

SpecV1 == InitV1 /\ [][NextV1]_vars

(***************************************************************************)
(* SpecIds: the first copy with bodies that carry an id and a store that   *)
(* deletes can empty                                                       *)
(***************************************************************************)
NextIds ==
  \/ \E r \in PostCategoryRequests({Bearer}, {JStr("Prints")}, {JStr("d")}) :
        PostCategoryV1(r)
  \/ \E r \in PutCategoryRequests({Bearer}, {JStr("2")}, {JUndef}, {JUndef}),
        id \in {JUndef, JNum(1)} : PutCategoryV1(r @@ [bodyId |-> id])
  \/ \E r \in DeleteCategoryRequests({Bearer},
                 {JStr("1"), JStr("2"), JStr("3"), JStr("4"), JStr("5")}) :
        DeleteCategoryV1(r)

SpecIds == InitV1 /\ [][NextIds]_vars

(***************************************************************************)
(* SpecRef: categories and the artworks that reference them                *)
(***************************************************************************)
NextRef ==
  \/ \E r \in PostCategoryRequests({Bearer},
                 {JStr("Prints"), JStr("PHOTOGRAPHY")}, {JStr("d")}) :
        PostCategory(r)
  \/ \E r \in DeleteCategoryRequests({Bearer}, {JStr("4"), JStr("5")}) :
        DeleteCategory(r)
  \/ \E r \in PostArtworkRequests({Bearer}, {JStr("d")}, {JNum(100)},
                 {JNum(4)}, {JUndef}, {1}) : PostArtwork(r)
  \/ \E r \in PutArtworkRequests({Bearer}, {JStr("5")},
                 {JUndef, JNum(5)}, {JUndef},
                 {JBool(TRUE), JBool(FALSE)}) : PutArtwork(r)
  \/ \E r \in DeleteArtworkRequests({Bearer}, {JStr("5"), JStr("6")}) :
        DeleteArtwork(r)

SpecRef == Init /\ [][NextRef]_vars

(***************************************************************************)
(* SpecAuth: the write routes called with and without a bearer token       *)
(***************************************************************************)
Credentials == {Bearer, JUndef, JStr("t")}

NextAuth ==
  \/ \E r \in PostCategoryRequests(Credentials, {JStr("Prints")}, {JStr("d")}) :
        PostCategory(r)
  \/ \E r \in PutCategoryRequests(Credentials, {JStr("4")}, {JUndef},
                 {JBool(FALSE)}) : PutCategory(r)
  \/ \E r \in DeleteCategoryRequests(Credentials, {JStr("5")}) :
        DeleteCategory(r)
  \/ \E r \in PostArtworkRequests(Credentials, {JStr("d")}, {JNum(100)},
                 {JNum(4)}, {JUndef}, {1}) : PostArtwork(r)
  \/ \E r \in PutArtworkRequests(Credentials, {JStr("5")}, {JUndef},
                 {JUndef}, {JBool(FALSE)}) : PutArtwork(r)
  \/ \E r \in DeleteArtworkRequests(Credentials, {JStr("5")}) :
        DeleteArtwork(r)

SpecAuth == Init /\ [][NextAuth]_vars

(***************************************************************************)
(* SpecView: creating, updating, listing and viewing artworks              *)
(***************************************************************************)
NextView ==
  \/ \E q \in GetArtworksRequests({JUndef}, {JUndef}, {JUndef}, {JUndef},
                 {JUndef}, {JUndef}, {JStr("popular")}) : GetArtworks(q)
  \/ \E r \in [id : {JStr("5"), JStr("6")}, now : {1}] : GetArtwork(r)
  \/ \E r \in PostArtworkRequests({Bearer}, {JStr("d")},
                 {JNum(100), JNum(0), JStr("12abc")}, {JNum(4), JNum(9)},
                 {JUndef}, {1, 2}) :
        PostArtwork(r)
  \/ \E r \in PutArtworkRequests({Bearer}, {JStr("5")}, {JUndef},
                 {JUndef, JStr("SOLD")}, {JUndef, JBool(FALSE)}) :
        PutArtwork(r)

SpecView == Init /\ [][NextView]_vars

(***************************************************************************)
(* SpecList: GET /api/artworks over stores that PUT has changed            *)
(***************************************************************************)
NextList ==
  \/ \E q \in GetArtworksRequests({JUndef, JStr("1")},
                 {JUndef, JStr(""), JStr("ALL"), JStr("SOLD"), JStr("AVAILABLE")},
                 {JUndef, JStr("true")},
                 {JUndef, JStr("2")},
                 {JUndef, JStr("1"), JStr("5")},
                 {JUndef}, {JUndef}) : GetArtworks(q)
  \/ \E r \in PutArtworkRequests({Bearer}, {JStr("4"), JStr("5")}, {JUndef},
                 {JStr("SOLD")}, {JUndef, JBool(FALSE)}) : PutArtwork(r)

SpecList == Init /\ [][NextList]_vars

(***************************************************************************)
(* SpecEnvelope: every call of formatResponse                              *)
(***************************************************************************)
\* the calls of formatResponse in the second copy of server.js: the line
\* of the call, the status of the response and the arguments, data reduced
\* to its first key
CallSitesServer ==
  { [line |-> 1291, status |-> 200, success |-> TRUE, data |-> JObj([key |-> "api"]),
     message |-> "ELOUARATE ART API is fully operational",
     error |-> JNull],
    [line |-> 1322, status |-> 400, success |-> FALSE, data |-> JNull,
     message |-> "Email and password are required",
     error |-> JCode("MISSING_CREDENTIALS")],
    [line |-> 1330, status |-> 401, success |-> FALSE, data |-> JNull,
     message |-> "Invalid credentials",
     error |-> JCode("INVALID_CREDENTIALS")],
    [line |-> 1345, status |-> 200, success |-> TRUE, data |-> JObj([key |-> "admin"]),
     message |-> "Login successful",
     error |-> JNull],
    [line |-> 1361, status |-> 200, success |-> TRUE, data |-> JObj([key |-> "admin"]),
     message |-> "Profile retrieved successfully",
     error |-> JNull],
    [line |-> 1366, status |-> 200, success |-> TRUE, data |-> JNull,
     message |-> "Logout successful",
     error |-> JNull],
    [line |-> 1378, status |-> 200, success |-> TRUE, data |-> JObj([key |-> "categories"]),
     message |-> "Categories retrieved successfully",
     error |-> JNull],
    [line |-> 1389, status |-> 404, success |-> FALSE, data |-> JNull,
     message |-> "Category not found",
     error |-> JCode("CATEGORY_NOT_FOUND")],
    [line |-> 1397, status |-> 200, success |-> TRUE, data |-> JObj([key |-> "category"]),
     message |-> "Category retrieved successfully",
     error |-> JNull],
    [line |-> 1410, status |-> 400, success |-> FALSE, data |-> JNull,
     message |-> "Category name and description are required",
     error |-> JCode("VALIDATION_ERROR")],
    [line |-> 1421, status |-> 409, success |-> FALSE, data |-> JNull,
     message |-> "Category with this name already exists",
     error |-> JCode("CATEGORY_EXISTS")],
    [line |-> 1440, status |-> 201, success |-> TRUE, data |-> JObj([key |-> "category"]),
     message |-> "Category created successfully",
     error |-> JNull],
    [line |-> 1451, status |-> 404, success |-> FALSE, data |-> JNull,
     message |-> "Category not found",
     error |-> JCode("CATEGORY_NOT_FOUND")],
    [line |-> 1465, status |-> 409, success |-> FALSE, data |-> JNull,
     message |-> "Another category with this name already exists",
     error |-> JCode("CATEGORY_EXISTS")],
    [line |-> 1483, status |-> 200, success |-> TRUE, data |-> JObj([key |-> "category"]),
     message |-> "Category updated successfully",
     error |-> JNull],
    [line |-> 1493, status |-> 404, success |-> FALSE, data |-> JNull,
     message |-> "Category not found",
     error |-> JCode("CATEGORY_NOT_FOUND")],
    [line |-> 1502, status |-> 409, success |-> FALSE, data |-> JNull,
     message |-> "(computed)",
     error |-> JCode("CATEGORY_HAS_ARTWORKS")],
    [line |-> 1511, status |-> 200, success |-> TRUE, data |-> JObj([key |-> "category"]),
     message |-> "Category deleted successfully",
     error |-> JNull],
    [line |-> 1586, status |-> 200, success |-> TRUE, data |-> JObj([key |-> "artworks"]),
     message |-> "Artworks retrieved successfully",
     error |-> JNull],
    [line |-> 1604, status |-> 404, success |-> FALSE, data |-> JNull,
     message |-> "Artwork not found",
     error |-> JCode("ARTWORK_NOT_FOUND")],
    [line |-> 1615, status |-> 200, success |-> TRUE, data |-> JObj([key |-> "artwork"]),
     message |-> "Artwork retrieved successfully",
     error |-> JNull],
    [line |-> 1631, status |-> 400, success |-> FALSE, data |-> JNull,
     message |-> "Name, description, price, and category are required",
     error |-> JCode("VALIDATION_ERROR")],
    [line |-> 1639, status |-> 400, success |-> FALSE, data |-> JNull,
     message |-> "Invalid category ID",
     error |-> JCode("INVALID_CATEGORY")],
    [line |-> 1666, status |-> 201, success |-> TRUE, data |-> JObj([key |-> "artwork"]),
     message |-> "Artwork created successfully",
     error |-> JNull],
    [line |-> 1680, status |-> 404, success |-> FALSE, data |-> JNull,
     message |-> "Artwork not found",
     error |-> JCode("ARTWORK_NOT_FOUND")],
    [line |-> 1689, status |-> 400, success |-> FALSE, data |-> JNull,
     message |-> "Invalid category ID",
     error |-> JCode("INVALID_CATEGORY")],
    [line |-> 1715, status |-> 200, success |-> TRUE, data |-> JObj([key |-> "artwork"]),
     message |-> "Artwork updated successfully",
     error |-> JNull],
    [line |-> 1725, status |-> 404, success |-> FALSE, data |-> JNull,
     message |-> "Artwork not found",
     error |-> JCode("ARTWORK_NOT_FOUND")],
    [line |-> 1734, status |-> 200, success |-> TRUE, data |-> JObj([key |-> "artwork"]),
     message |-> "Artwork deleted successfully",
     error |-> JNull],
    [line |-> 1827, status |-> 200, success |-> TRUE, data |-> JObj([key |-> "users"]),
     message |-> "Users retrieved successfully",
     error |-> JNull],
    [line |-> 1844, status |-> 404, success |-> FALSE, data |-> JNull,
     message |-> "User not found",
     error |-> JCode("USER_NOT_FOUND")],
    [line |-> 1849, status |-> 200, success |-> TRUE, data |-> JObj([key |-> "user"]),
     message |-> "User retrieved successfully",
     error |-> JNull],
    [line |-> 1857, status |-> 400, success |-> FALSE, data |-> JNull,
     message |-> "First name, last name, and email are required",
     error |-> JCode("VALIDATION_ERROR")],
    [line |-> 1866, status |-> 409, success |-> FALSE, data |-> JNull,
     message |-> "User with this email already exists",
     error |-> JCode("USER_EXISTS")],
    [line |-> 1888, status |-> 201, success |-> TRUE, data |-> JObj([key |-> "user"]),
     message |-> "User created successfully",
     error |-> JNull],
    [line |-> 1899, status |-> 404, success |-> FALSE, data |-> JNull,
     message |-> "User not found",
     error |-> JCode("USER_NOT_FOUND")],
    [line |-> 1911, status |-> 409, success |-> FALSE, data |-> JNull,
     message |-> "Another user with this email already exists",
     error |-> JCode("USER_EXISTS")],
    [line |-> 1932, status |-> 200, success |-> TRUE, data |-> JObj([key |-> "user"]),
     message |-> "User updated successfully",
     error |-> JNull],
    [line |-> 1942, status |-> 404, success |-> FALSE, data |-> JNull,
     message |-> "User not found",
     error |-> JCode("USER_NOT_FOUND")],
    [line |-> 1951, status |-> 200, success |-> TRUE, data |-> JObj([key |-> "user"]),
     message |-> "User deleted successfully",
     error |-> JNull],
    [line |-> 1960, status |-> 400, success |-> FALSE, data |-> JNull,
     message |-> "No image file provided",
     error |-> JCode("NO_FILE")],
    [line |-> 1968, status |-> 200, success |-> TRUE, data |-> JObj([key |-> "url"]),
     message |-> "Image uploaded successfully",
     error |-> JNull],
    [line |-> 1979, status |-> 400, success |-> FALSE, data |-> JNull,
     message |-> "No image files provided",
     error |-> JCode("NO_FILES")],
    [line |-> 1994, status |-> 200, success |-> TRUE, data |-> JObj([key |-> "images"]),
     message |-> "(computed)",
     error |-> JNull],
    [line |-> 2066, status |-> 404, success |-> FALSE, data |-> JNull,
     message |-> "(computed)",
     error |-> JCode("NOT_FOUND")],
    [line |-> 2073, status |-> 500, success |-> FALSE, data |-> JNull,
     message |-> "(computed)",
     error |-> JCode("INTERNAL_SERVER_ERROR")] }

\* the calls of formatResponse in the first copy of server.js
CallSitesServerV1 ==
  { [line |-> 204, status |-> 400, success |-> FALSE, data |-> JNull,
     message |-> "Validation failed",
     error |-> JObj([type |-> "VALIDATION_ERROR"])],
    [line |-> 314, status |-> 200, success |-> TRUE, data |-> JObj([key |-> "status"]),
     message |-> "Server is running perfectly",
     error |-> JNull],
    [line |-> 328, status |-> 200, success |-> TRUE, data |-> JObj([key |-> "api"]),
     message |-> "API is fully operational",
     error |-> JNull],
    [line |-> 360, status |-> 400, success |-> FALSE, data |-> JNull,
     message |-> "Email and password are required",
     error |-> JCode("MISSING_CREDENTIALS")],
    [line |-> 372, status |-> 401, success |-> FALSE, data |-> JNull,
     message |-> "Invalid credentials",
     error |-> JCode("INVALID_CREDENTIALS")],
    [line |-> 388, status |-> 200, success |-> TRUE, data |-> JObj([key |-> "admin"]),
     message |-> "Login successful",
     error |-> JNull],
    [line |-> 410, status |-> 401, success |-> FALSE, data |-> JNull,
     message |-> "Authentication required",
     error |-> JCode("UNAUTHORIZED")],
    [line |-> 419, status |-> 200, success |-> TRUE, data |-> JObj([key |-> "admin"]),
     message |-> "Profile retrieved successfully",
     error |-> JNull],
    [line |-> 438, status |-> 200, success |-> TRUE, data |-> JNull,
     message |-> "Logout successful",
     error |-> JNull],
    [line |-> 452, status |-> 200, success |-> TRUE, data |-> JObj([key |-> "categories"]),
     message |-> "Categories retrieved successfully",
     error |-> JNull],
    [line |-> 468, status |-> 404, success |-> FALSE, data |-> JNull,
     message |-> "Category not found",
     error |-> JCode("CATEGORY_NOT_FOUND")],
    [line |-> 476, status |-> 200, success |-> TRUE, data |-> JObj([key |-> "category"]),
     message |-> "Category retrieved successfully",
     error |-> JNull],
    [line |-> 495, status |-> 409, success |-> FALSE, data |-> JNull,
     message |-> "Category already exists",
     error |-> JCode("CATEGORY_EXISTS")],
    [line |-> 516, status |-> 201, success |-> TRUE, data |-> JObj([key |-> "category"]),
     message |-> "Category created successfully",
     error |-> JNull],
    [line |-> 536, status |-> 404, success |-> FALSE, data |-> JNull,
     message |-> "Category not found",
     error |-> JCode("CATEGORY_NOT_FOUND")],
    [line |-> 553, status |-> 200, success |-> TRUE, data |-> JObj([key |-> "category"]),
     message |-> "Category updated successfully",
     error |-> JNull],
    [line |-> 567, status |-> 404, success |-> FALSE, data |-> JNull,
     message |-> "Category not found",
     error |-> JCode("CATEGORY_NOT_FOUND")],
    [line |-> 578, status |-> 200, success |-> TRUE, data |-> JNull,
     message |-> "Category deleted successfully",
     error |-> JNull],
    [line |-> 631, status |-> 200, success |-> TRUE, data |-> JObj([key |-> "artworks"]),
     message |-> "Artworks retrieved successfully",
     error |-> JNull],
    [line |-> 652, status |-> 404, success |-> FALSE, data |-> JNull,
     message |-> "Artwork not found",
     error |-> JCode("ARTWORK_NOT_FOUND")],
    [line |-> 663, status |-> 200, success |-> TRUE, data |-> JObj([key |-> "artwork"]),
     message |-> "Artwork retrieved successfully",
     error |-> JNull],
    [line |-> 684, status |-> 400, success |-> FALSE, data |-> JNull,
     message |-> "Invalid category",
     error |-> JCode("INVALID_CATEGORY")],
    [line |-> 706, status |-> 201, success |-> TRUE, data |-> JObj([key |-> "artwork"]),
     message |-> "Artwork created successfully",
     error |-> JNull],
    [line |-> 720, status |-> 400, success |-> FALSE, data |-> JNull,
     message |-> "No image file provided",
     error |-> JCode("NO_FILE")],
    [line |-> 731, status |-> 200, success |-> TRUE, data |-> JObj([key |-> "url"]),
     message |-> "Image uploaded successfully",
     error |-> JNull],
    [line |-> 746, status |-> 400, success |-> FALSE, data |-> JNull,
     message |-> "No image files provided",
     error |-> JCode("NO_FILES")],
    [line |-> 763, status |-> 200, success |-> TRUE, data |-> JObj([key |-> "images"]),
     message |-> "(computed)",
     error |-> JNull],
    [line |-> 828, status |-> 404, success |-> FALSE, data |-> JNull,
     message |-> "(computed)",
     error |-> JCode("NOT_FOUND")],
    [line |-> 845, status |-> 400, success |-> FALSE, data |-> JNull,
     message |-> "Validation failed",
     error |-> JCode("VALIDATION_ERROR")],
    [line |-> 854, status |-> 401, success |-> FALSE, data |-> JNull,
     message |-> "Unauthorized access",
     error |-> JCode("UNAUTHORIZED")],
    [line |-> 863, status |-> 413, success |-> FALSE, data |-> JNull,
     message |-> "File too large (max 10MB)",
     error |-> JCode("FILE_TOO_LARGE")],
    [line |-> 872, status |-> 500, success |-> FALSE, data |-> JNull,
     message |-> "(computed)",
     error |-> JCode("INTERNAL_SERVER_ERROR")] }

\* the calls of formatResponse in routes/admin.js
CallSitesAdmin ==
  { [line |-> 63, status |-> 429, success |-> FALSE, data |-> JNull,
     message |-> "Too many admin requests, please try again later",
     error |-> JCode("RATE_LIMIT_EXCEEDED")],
    [line |-> 120, status |-> 400, success |-> FALSE, data |-> JNull,
     message |-> "Validation failed",
     error |-> JObj([type |-> "VALIDATION_ERROR"])],
    [line |-> 147, status |-> 200, success |-> TRUE, data |-> JObj([key |-> "exists"]),
     message |-> "(computed)",
     error |-> JNull],
    [line |-> 158, status |-> 500, success |-> FALSE, data |-> JNull,
     message |-> "Failed to check admin existence",
     error |-> JCode("INTERNAL_SERVER_ERROR")],
    [line |-> 177, status |-> 401, success |-> FALSE, data |-> JNull,
     message |-> "Invalid credentials",
     error |-> JCode("INVALID_CREDENTIALS")],
    [line |-> 186, status |-> 200, success |-> TRUE, data |-> JObj([key |-> "admin"]),
     message |-> "Login successful",
     error |-> JNull],
    [line |-> 199, status |-> 500, success |-> FALSE, data |-> JNull,
     message |-> "Login failed",
     error |-> JCode("INTERNAL_SERVER_ERROR")],
    [line |-> 221, status |-> 201, success |-> TRUE, data |-> JObj([key |-> "admin"]),
     message |-> "Admin registered successfully",
     error |-> JNull],
    [line |-> 234, status |-> 500, success |-> FALSE, data |-> JNull,
     message |-> "(computed)",
     error |-> JCode("INTERNAL_SERVER_ERROR")],
    [line |-> 250, status |-> 400, success |-> FALSE, data |-> JNull,
     message |-> "Refresh token required",
     error |-> JCode("MISSING_REFRESH_TOKEN")],
    [line |-> 260, status |-> 200, success |-> TRUE, data |-> JObj([key |-> "tokens"]),
     message |-> "Token refreshed successfully",
     error |-> JNull],
    [line |-> 272, status |-> 500, success |-> FALSE, data |-> JNull,
     message |-> "Failed to refresh token",
     error |-> JCode("INTERNAL_SERVER_ERROR")],
    [line |-> 289, status |-> 400, success |-> FALSE, data |-> JNull,
     message |-> "(computed)",
     error |-> JCode("PASSWORD_RESET_FAILED")],
    [line |-> 298, status |-> 200, success |-> TRUE, data |-> JNull,
     message |-> "Password reset initiated. Check your email for instructions.",
     error |-> JNull],
    [line |-> 305, status |-> 500, success |-> FALSE, data |-> JNull,
     message |-> "Failed to initiate password reset",
     error |-> JCode("INTERNAL_SERVER_ERROR")],
    [line |-> 322, status |-> 400, success |-> FALSE, data |-> JNull,
     message |-> "(computed)",
     error |-> JCode("PASSWORD_RESET_FAILED")],
    [line |-> 331, status |-> 200, success |-> TRUE, data |-> JNull,
     message |-> "Password reset successful",
     error |-> JNull],
    [line |-> 338, status |-> 500, success |-> FALSE, data |-> JNull,
     message |-> "Failed to complete password reset",
     error |-> JCode("INTERNAL_SERVER_ERROR")],
    [line |-> 357, status |-> 400, success |-> FALSE, data |-> JNull,
     message |-> "(computed)",
     error |-> JCode("PASSWORD_CHANGE_FAILED")],
    [line |-> 366, status |-> 200, success |-> TRUE, data |-> JNull,
     message |-> "Password changed successfully",
     error |-> JNull],
    [line |-> 373, status |-> 500, success |-> FALSE, data |-> JNull,
     message |-> "Failed to change password",
     error |-> JCode("INTERNAL_SERVER_ERROR")],
    [line |-> 389, status |-> 404, success |-> FALSE, data |-> JNull,
     message |-> "Admin not found",
     error |-> JCode("NOT_FOUND")],
    [line |-> 398, status |-> 200, success |-> TRUE, data |-> JObj([key |-> "admin"]),
     message |-> "Profile retrieved successfully",
     error |-> JNull],
    [line |-> 412, status |-> 500, success |-> FALSE, data |-> JNull,
     message |-> "Failed to retrieve profile",
     error |-> JCode("INTERNAL_SERVER_ERROR")],
    [line |-> 428, status |-> 200, success |-> TRUE, data |-> JNull,
     message |-> "Admin logged out successfully",
     error |-> JNull],
    [line |-> 436, status |-> 500, success |-> FALSE, data |-> JNull,
     message |-> "Logout failed",
     error |-> JCode("INTERNAL_SERVER_ERROR")],
    [line |-> 486, status |-> 200, success |-> TRUE, data |-> JObj([key |-> "statistics"]),
     message |-> "Dashboard statistics retrieved successfully",
     error |-> JNull],
    [line |-> 494, status |-> 500, success |-> FALSE, data |-> JNull,
     message |-> "Failed to get dashboard statistics",
     error |-> JCode("INTERNAL_SERVER_ERROR")],
    [line |-> 529, status |-> 200, success |-> TRUE, data |-> JObj([key |-> "health"]),
     message |-> "System health check completed",
     error |-> JNull],
    [line |-> 537, status |-> 500, success |-> FALSE, data |-> JNull,
     message |-> "Health check failed",
     error |-> JCode("INTERNAL_SERVER_ERROR")],
    [line |-> 553, status |-> 200, success |-> TRUE, data |-> JObj([key |-> "adminService"]),
     message |-> "Admin service is healthy",
     error |-> JNull],
    [line |-> 565, status |-> 500, success |-> FALSE, data |-> JNull,
     message |-> "Admin service health check failed",
     error |-> JCode("HEALTH_CHECK_FAILED")],
    [line |-> 584, status |-> 400, success |-> FALSE, data |-> JNull,
     message |-> "Validation failed",
     error |-> JCode("VALIDATION_ERROR")],
    [line |-> 594, status |-> 401, success |-> FALSE, data |-> JNull,
     message |-> "Unauthorized access",
     error |-> JCode("UNAUTHORIZED")],
    [line |-> 604, status |-> 500, success |-> FALSE, data |-> JNull,
     message |-> "Internal server error",
     error |-> JCode("INTERNAL_SERVER_ERROR")] }

\* formatResponse of routes/admin.js: an error object is reduced to its
\* type, and kept as errorDetails in development
FormatResponseAdmin(success, data, message, error, env, now) ==
  [success |-> success, message |-> message, timestamp |-> now]
    @@ (IF Truthy(data) THEN [data |-> Content(data)] ELSE <<>>)
    @@ (IF Truthy(error)
        THEN [error |-> IF error.t = "code" THEN error.c
                        ELSE IF "type" \in DOMAIN error.o /\ error.o.type # ""
                             THEN error.o.type ELSE "UNKNOWN_ERROR"]
        ELSE <<>>)
    @@ (IF env = "development" /\ Truthy(error) /\ error.t = "object"
        THEN [errorDetails |-> error.o] ELSE <<>>)

\* a handler of the second copy of server.js building its envelope
FormatResponseCall(site, now) ==
  /\ Respond("formatResponse", site, site.status,
       FormatResponse(site.success, site.data, site.message, site.error, now))
  /\ UNCHANGED <<categories, artworks, views>>

\* a handler of the first copy of server.js building its envelope
FormatResponseV1Call(site, now) ==
  /\ Respond("formatResponse", site, site.status,
       FormatResponseV1(site.success, site.data, site.message, site.error,
                        <<>>, now))
  /\ UNCHANGED <<categories, artworks, views>>

\* a handler of routes/admin.js building its envelope
FormatResponseAdminCall(site, env, now) ==
  /\ Respond("formatResponse", site, site.status,
       FormatResponseAdmin(site.success, site.data, site.message, site.error,
                           env, now))
  /\ UNCHANGED <<categories, artworks, views>>

NextEnvelope ==
  \/ \E site \in CallSitesServer, now \in {1, 2} : FormatResponseCall(site, now)
  \/ \E site \in CallSitesServerV1, now \in {1, 2} :
        FormatResponseV1Call(site, now)
  \/ \E site \in CallSitesAdmin, env \in {"development", "production"}, now \in {1, 2} :
        FormatResponseAdminCall(site, env, now)

SpecEnvelope == Init /\ [][NextEnvelope]_vars

(***************************************************************************)
(* SpecErrors: the rate limiter, the 404 handler and the error middleware  *)
(* of the second copy of server.js                                         *)
(***************************************************************************)
\* app.use('/api/', generalLimiter) in front of handler: the request is
\* counted and handled, or answered 429 once the window holds max requests
Limited(op, r, handler) ==
  IF hits >= 500
  THEN /\ Answer(op, r, 429, [error |-> "Too many requests, please try again later"])
       /\ UNCHANGED hits
  ELSE /\ hits' = hits + 1
       /\ handler

\* the error middleware answering the error a handler or a body parser
\* passed to next()
ErrorMiddleware(op, r) ==
  Answer(op, r, 500,
    FormatResponse(FALSE, JNull,
      IF r.env = "production" THEN "Internal server error" ELSE r.error.message,
      JCode("INTERNAL_SERVER_ERROR"), r.now))

\* a request to an unknown endpoint under /api/, answered by app.use('*')
UnknownEndpoint(r) ==
  /\ Limited("*", r,
       Answer("*", r, 404,
         FormatResponse(FALSE, JNull, <<"Endpoint not found: ", r.method, r.url>>,
           JCode("NOT_FOUND"), r.now)))
  /\ UNCHANGED <<catalogue, admins, db, uploads, elsewhere>>

\* a request whose body express.json cannot parse, or whose handler throws
FailingRequest(r) ==
  /\ Limited("error", r, ErrorMiddleware("error", r))
  /\ UNCHANGED <<catalogue, admins, db, uploads, elsewhere>>

\* the window of the limiter (windowMs) ends
WindowElapsed ==
  /\ hits > 0
  /\ hits' = 0
  /\ UNCHANGED <<catalogue, admins, last, db, uploads, elsewhere>>

NextErrors ==
  \/ \E r \in [method : {"GET"}, url : {"/api/nope"}, now : {1}] :
        UnknownEndpoint(r)
  \/ \E r \in [error :
                 { [name |-> "SyntaxError",
                    message |-> "Unexpected token } in JSON at position 1"],
                   [name |-> "MulterError", message |-> "File too large"] },
               env : {"development", "production"}, now : {1}] :
        FailingRequest(r)
  \/ WindowElapsed

SpecErrors == Init /\ [][NextErrors]_vars

(***************************************************************************)
(* SpecLogin: POST /api/admin/login of the second copy of server.js        *)
(***************************************************************************)
\* a login that accepts any password of an active admin
AdminFoundAnyPassword(adms, r) ==
  FindIndex(adms, [a \in Elems(adms) |->
     a.email = r.email /\ Truthy(a.isActive)])

\* admins.find(a => a.email === email && a.isActive), then
\* admin.passwordHash !== password; 0 when the login is refused
AdminFound(adms, r) ==
  LET i == FindIndex(adms, [a \in Elems(adms) |->
              a.email = r.email /\ Truthy(a.isActive)])
  IN IF i # 0 /\ adms[i].passwordHash = r.password THEN i ELSE 0

\* POST /api/admin/login; the tokens are
\* `elouarate-access-${admin.id}-${Date.now()}` and its refresh counterpart
AdminLogin(r) ==
  /\ UNCHANGED <<catalogue, hits, db, uploads, elsewhere>>
  /\ IF ~Truthy(r.email) \/ ~Truthy(r.password)
     THEN /\ Answer("POST /api/admin/login", r, 400,
               FormatResponse(FALSE, JNull, "Email and password are required",
                 JCode("MISSING_CREDENTIALS"), r.now))
          /\ UNCHANGED admins
     ELSE IF AdminFound(admins, r) = 0
     THEN /\ Answer("POST /api/admin/login", r, 401,
               FormatResponse(FALSE, JNull, "Invalid credentials",
                 JCode("INVALID_CREDENTIALS"), r.now))
          /\ UNCHANGED admins
     ELSE LET i == AdminFound(admins, r)
              admin == [admins[i] EXCEPT !.lastLogin = JNum(r.now)]
          IN /\ admins' = [admins EXCEPT ![i] = admin]
             /\ Answer("POST /api/admin/login", r, 200,
                  FormatResponse(TRUE,
                    JObj([admin |->
                            [id |-> admin.id, username |-> admin.username,
                             email |-> admin.email, role |-> admin.role,
                             isActive |-> admin.isActive,
                             createdAt |-> admin.createdAt,
                             lastLogin |-> admin.lastLogin],
                          tokens |->
                            [accessToken |->
                               <<"elouarate-access-", admin.id, r.now>>,
                             refreshToken |->
                               <<"elouarate-refresh-", admin.id, r.now>>]]),
                    "Login successful", JNull, r.now))

NextLogin ==
  \E r \in [email : {JUndef, JStr(""), JStr("admin@elouarate.com"),
                     JStr("ADMIN@elouarate.com"), JStr("nobody@elouarate.com")},
            password : {JUndef, JStr("Admin123!"), JStr("admin123!"), JNum(0)},
            now : {1, 2, 3}] : AdminLogin(r)

SpecLogin == Init /\ [][NextLogin]_vars

(***************************************************************************)
(* SpecBootstrap: the admins table under AdminService and seedAdmins       *)
(***************************************************************************)
\* bcrypt.hash(password, 12), up to the salt: bcrypt.compare(p, h) holds
\* exactly when h is a hash of p
BcryptHash(password) == [bcrypt |-> password]

DefaultAdminEmail == "admin@elouarate.com"

\* the row both bootstraps insert; id is the next value of the SERIAL
DefaultAdminRow(table, now) ==
  [id |-> Len(table) + 1, username |-> "admin", email |-> DefaultAdminEmail,
   password_hash |-> BcryptHash("Admin123!"), is_active |-> TRUE,
   last_login |-> NoTime, created_at |-> now, updated_at |-> now]

\* SELECT id FROM admins WHERE email = $1
RowsByEmail(table, email) == {i \in Indices(table) : table[i].email = email}

\* the database starts without admins
InitBootstrap ==
  /\ categories = SeedCategories
  /\ artworks = SeedArtworks
  /\ last = NoRequest
  /\ views = 0
  /\ hits = 0
  /\ admins = <<>>
  /\ db = NoTransaction
  /\ uploads = {}
  /\ pool = [created |-> FALSE, out |-> 0, dbOut |-> 0]
  /\ cache = EmptyCache
  /\ users = SeedUsers
  /\ calls = NoCalls

\* AdminService.ensureAdminSetup: inserts the default admin when no row has
\* its email
EnsureAdminSetup(now) ==
  /\ UNCHANGED <<catalogue, hits, db, uploads, elsewhere>>
  /\ Answer("ensureAdminSetup", [now |-> now], 0, <<>>)
  /\ IF RowsByEmail(admins, DefaultAdminEmail) = {}
     THEN /\ Len(admins) < MaxAdmins
          /\ admins' = Append(admins, DefaultAdminRow(admins, now))
     ELSE UNCHANGED admins

\* seedAdmins: inserts the default admin when the table is empty
SeedAdminsRun(now) ==
  /\ UNCHANGED <<catalogue, hits, db, uploads, elsewhere>>
  /\ Answer("seedAdmins", [now |-> now], 0, <<>>)
  /\ IF Len(admins) > 0
     THEN UNCHANGED admins
     ELSE admins' = Append(admins, DefaultAdminRow(admins, now))

\* AdminService.updateProfile(adminId, {username, email}): throws when the
\* email belongs to another admin or no row has the id
UpdateProfile(r) ==
  /\ UNCHANGED <<catalogue, hits, db, uploads, elsewhere>>
  /\ IF /\ Truthy(r.email)
        /\ \E i \in RowsByEmail(admins, r.email.s) : admins[i].id # r.adminId
     THEN /\ Answer("updateProfile", r, 0,
               [error |-> "Email already taken by another admin"])
          /\ UNCHANGED admins
     ELSE IF \A i \in Indices(admins) : admins[i].id # r.adminId
     THEN /\ Answer("updateProfile", r, 0, [error |-> "Admin not found"])
          /\ UNCHANGED admins
     ELSE LET i == CHOOSE k \in Indices(admins) : admins[k].id = r.adminId
              row == [admins[i] EXCEPT
                        !.username = IF r.username = JUndef THEN @ ELSE r.username.s,
                        !.email = IF r.email = JUndef THEN @ ELSE r.email.s,
                        !.updated_at = r.now]
          IN /\ admins' = [admins EXCEPT ![i] = row]
             /\ Answer("updateProfile", r, 0,
                  [id |-> row.id, username |-> row.username,
                   email |-> row.email, created_at |-> row.created_at])

NextBootstrap ==
  \/ \E now \in {1, 3} : EnsureAdminSetup(now)
  \/ \E now \in {1, 3} : SeedAdminsRun(now)
  \/ \E r \in [adminId : {1, 2}, username : {JUndef, JStr("root")},
               email : {JUndef, JStr("root@elouarate.com"), JStr(DefaultAdminEmail)},
               now : {2}] : UpdateProfile(r)

SpecBootstrap == InitBootstrap /\ [][NextBootstrap]_vars

(***************************************************************************)
(* SpecTransaction: Database.transaction running the callback of           *)
(* Database.batchQuery; every statement sent to the client can fail        *)
(***************************************************************************)
\* the frame of the steps of a transaction
NotDatabase == <<catalogue, last, hits, admins, uploads, elsewhere>>

\* batchQuery(queries): transaction(callback) is called and connects
BatchQuery(queries) ==
  /\ db.pc = "idle"
  /\ db' = [NoTransaction EXCEPT !.rows = db.rows, !.before = db.rows,
                                 !.pc = "begin", !.batch = queries,
                                 !.queries = queries, !.connects = 1]
  /\ UNCHANGED NotDatabase

\* await client.query('BEGIN')
TxBegin(ok) ==
  /\ db.pc = "begin"
  /\ db' = IF ok
           THEN [db EXCEPT !.issued = Append(@, "BEGIN"), !.pc = "callback"]
           ELSE [db EXCEPT !.issued = Append(@, "BEGIN"), !.pc = "rollback",
                           !.error = "BEGIN failed"]
  /\ UNCHANGED NotDatabase

\* a callback that goes on to COMMIT after a statement failed
TxStatementUnchecked(ok) ==
  /\ db.pc = "callback"
  /\ db.queries # <<>>
  /\ db' = IF ok
           THEN [db EXCEPT !.issued = Append(@, Head(db.queries)),
                           !.pending = @ \cup {Head(db.queries)},
                           !.queries = Tail(@)]
           ELSE [db EXCEPT !.issued = Append(@, Head(db.queries)),
                           !.queries = Tail(@)]
  /\ UNCHANGED NotDatabase

\* await client.query(query.text, query.params) in the loop of the callback
TxStatement(ok) ==
  /\ db.pc = "callback"
  /\ db.queries # <<>>
  /\ db' = IF ok
           THEN [db EXCEPT !.issued = Append(@, Head(db.queries)),
                           !.pending = @ \cup {Head(db.queries)},
                           !.queries = Tail(@)]
           ELSE [db EXCEPT !.issued = Append(@, Head(db.queries)),
                           !.pc = "rollback",
                           !.error = Head(db.queries)]
  /\ UNCHANGED NotDatabase

\* the callback returns; await client.query('COMMIT'); return result
TxCommit(ok) ==
  /\ db.pc = "callback"
  /\ db.queries = <<>>
  /\ db' = IF ok
           THEN [db EXCEPT !.issued = Append(@, "COMMIT"), !.pc = "idle",
                           !.rows = @ \cup db.pending, !.pending = {},
                           !.outcome = "returned", !.releases = @ + 1]
           ELSE [db EXCEPT !.issued = Append(@, "COMMIT"), !.pc = "rollback",
                           !.error = "COMMIT failed"]
  /\ UNCHANGED NotDatabase

\* a catch block that releases the client after ROLLBACK, with no finally
TxRollbackNoFinally(ok) ==
  /\ db.pc = "rollback"
  /\ db' = [db EXCEPT !.issued = Append(@, "ROLLBACK"), !.pc = "idle",
                      !.pending = {}, !.outcome = "thrown",
                      !.thrown = IF ok THEN db.error ELSE "ROLLBACK failed",
                      !.releases = IF ok THEN @ + 1 ELSE @]
  /\ UNCHANGED NotDatabase

\* catch (error) { await client.query('ROLLBACK'); throw error }: a
\* ROLLBACK that fails throws in place of `throw error`; its connection is
\* lost and the server drops the open transaction.  finally releases the
\* client on the way out, whichever error is thrown
TxRollback(ok) ==
  /\ db.pc = "rollback"
  /\ db' = [db EXCEPT !.issued = Append(@, "ROLLBACK"), !.pc = "idle",
                      !.pending = {}, !.outcome = "thrown",
                      !.thrown = IF ok THEN db.error ELSE "ROLLBACK failed",
                      !.releases = @ + 1]
  /\ UNCHANGED NotDatabase

\* Database.query(text, params), a step for each await: pool.connect(),
\* which throws to the outer catch with no client when it fails, then
\* client.query(), whose finally releases the client whether it failed or not
Query(ok) ==
  /\ db.pc \in {"idle", "query"}
  /\ db' = IF db.pc = "query"
           THEN [db EXCEPT !.pc = "idle", !.releases = @ + 1]
           ELSE IF ok
           THEN [db EXCEPT !.pc = "query", !.connects = 1, !.releases = 0]
           ELSE [db EXCEPT !.connects = 0, !.releases = 0]
  /\ UNCHANGED NotDatabase

NextTransaction ==
  \/ \E queries \in {<<>>, <<"q1">>, <<"q2">>, <<"q1", "q2">>, <<"q3", "q1">>} :
        BatchQuery(queries)
  \/ \E ok \in BOOLEAN : TxBegin(ok)
  \/ \E ok \in BOOLEAN : TxStatement(ok)
  \/ \E ok \in BOOLEAN : TxCommit(ok)
  \/ \E ok \in BOOLEAN : TxRollback(ok)
  \/ \E ok \in BOOLEAN : Query(ok)

SpecTransaction == Init /\ [][NextTransaction]_vars

(***************************************************************************)
(* SpecUpdate: PUT /api/artworks/:id and PUT /api/categories/:id with      *)
(* bodies that supply falsy values                                         *)
(***************************************************************************)
NextUpdate ==
  \/ \E r \in [authorization : {Bearer}, id : {JStr("5"), JStr("9")},
               name : {JUndef}, description : {JUndef, JStr(""), JStr("d")},
               price : {JUndef, JNum(0), JNum(100)}, originalPrice : {JUndef},
               medium : {JUndef}, categoryId : {JUndef}, status : {JUndef},
               isFeatured : {JUndef}, isActive : {JUndef, JBool(FALSE)},
               now : {2}] : PutArtwork(r)
  \/ \E r \in [authorization : {Bearer}, id : {JStr("4"), JStr("9")},
               name : {JUndef}, description : {JUndef, JStr(""), JStr("d")},
               color : {JUndef}, isActive : {JUndef, JBool(FALSE)},
               now : {2}] : PutCategory(r)

SpecUpdate == Init /\ [][NextUpdate]_vars

(***************************************************************************)
(* SpecUpload: POST /api/upload/image behind multer, in both variants      *)
(***************************************************************************)
\* String.prototype.toLowerCase on a sequence of characters
ToLowerChars(cs) == [i \in 1..Len(cs) |-> ToLowerChar(cs[i])]

\* path.extname of a file name without directories: from the last "." to
\* the end, empty when there is no "." or the only one is the first character
Extname(cs) ==
  LET dots == {i \in 1..Len(cs) : cs[i] = "."}
  IN IF dots = {} \/ dots = {1} THEN <<>>
     ELSE SubSeq(cs, CHOOSE i \in dots : \A j \in dots : j <= i, Len(cs))

\* the alternatives of /jpeg|jpg|png|gif|webp/
AllowedTypes ==
  { <<"j","p","e","g">>, <<"j","p","g">>, <<"p","n","g">>, <<"g","i","f">>,
    <<"w","e","b","p">> }

\* mimetype && extname of both file filters; allowedTypes.test(str) is not
\* anchored
FileFilter(file) ==
  LET AllowedTypesTest(cs) == \E a \in AllowedTypes : Includes(cs, a)
      extname == AllowedTypesTest(ToLowerChars(Extname(Spelling[file.originalname])))
      mimetype == AllowedTypesTest(Spelling[file.mimetype])
  IN mimetype /\ extname

\* limits.fileSize, in bytes
FileSizeLimit == 10 * 1024 * 1024

\* the name diskStorage gives the file: artwork-<Date.now()>-<random><ext>
Filename(r) ==
  [prefix |-> "artwork-", time |-> r.now, random |-> r.random,
   ext |-> Extname(Spelling[r.file.originalname])]

\* the request with the error passed to next()
Failed(r, error) == r @@ [error |-> error]

\* the error middleware of the first variant
ErrorMiddlewareV1(op, r) ==
  IF r.error.name = "ValidationError"
  THEN Answer(op, r, 400,
         FormatResponseV1(FALSE, JNull, "Validation failed",
           JCode("VALIDATION_ERROR"), <<>>, r.now))
  ELSE IF r.error.name = "UnauthorizedError"
  THEN Answer(op, r, 401,
         FormatResponseV1(FALSE, JNull, "Unauthorized access",
           JCode("UNAUTHORIZED"), <<>>, r.now))
  ELSE IF r.error.code = "LIMIT_FILE_SIZE"
  THEN Answer(op, r, 413,
         FormatResponseV1(FALSE, JNull, "File too large (max 10MB)",
           JCode("FILE_TOO_LARGE"), <<>>, r.now))
  ELSE Answer(op, r, 500,
         FormatResponseV1(FALSE, JNull,
           IF r.env = "production" THEN "Internal server error"
           ELSE r.error.message,
           JCode("INTERNAL_SERVER_ERROR"), <<>>, r.now))

\* the answer of the upload handler to a stored file
Uploaded(r) ==
  [url |-> <<"/uploads/", Filename(r)>>, filename |-> Filename(r),
   originalName |-> r.file.originalname, size |-> r.file.size]

\* POST /api/upload/image, first variant: upload.single('image'), the
\* handler, and the error middleware for what multer passes to next()
UploadImageV1(r) ==
  /\ UNCHANGED <<catalogue, hits, admins, db, elsewhere>>
  /\ IF ~r.file.present
     THEN /\ Answer("POST /api/upload/image", r, 400,
               FormatResponseV1(FALSE, JNull, "No image file provided",
                 JCode("NO_FILE"), <<>>, r.now))
          /\ UNCHANGED uploads
     ELSE IF ~FileFilter(r.file)
     THEN /\ ErrorMiddlewareV1("POST /api/upload/image",
               Failed(r, [name |-> "Error", message |-> "Only image files are allowed (JPEG, PNG, GIF, WebP)",
                          code |-> ""]))
          /\ UNCHANGED uploads
     ELSE IF r.file.size > FileSizeLimit
     THEN /\ ErrorMiddlewareV1("POST /api/upload/image", Failed(r, [name |-> "MulterError", message |-> "File too large",
                                                                    code |-> "LIMIT_FILE_SIZE"]))
          /\ UNCHANGED uploads
     ELSE /\ uploads' = uploads \cup {Filename(r)}
          /\ Answer("POST /api/upload/image", r, 200,
               FormatResponseV1(TRUE, JObj(Uploaded(r)),
                 "Image uploaded successfully", JNull, <<>>, r.now))

\* POST /api/upload/image, second variant: the filter drops the file
\* without an error
UploadImage(r) ==
  /\ UNCHANGED <<catalogue, hits, admins, db, elsewhere>>
  /\ IF ~r.file.present \/ ~FileFilter(r.file)
     THEN /\ Answer("POST /api/upload/image", r, 400,
               FormatResponse(FALSE, JNull, "No image file provided",
                 JCode("NO_FILE"), r.now))
          /\ UNCHANGED uploads
     ELSE IF r.file.size > FileSizeLimit
     THEN /\ ErrorMiddleware("POST /api/upload/image", Failed(r, [name |-> "MulterError", message |-> "File too large",
                                                                  code |-> "LIMIT_FILE_SIZE"]))
          /\ UNCHANGED uploads
     ELSE /\ uploads' = uploads \cup {Filename(r)}
          /\ Answer("POST /api/upload/image", r, 200,
               FormatResponse(TRUE,
                 JObj(Uploaded(r) @@ [mimeType |-> r.file.mimetype]),
                 "Image uploaded successfully", JNull, r.now))

\* multipart bodies: without a file, or with one file in the field image
UploadRequests ==
  [file : [present : {TRUE},
           originalname : {"a.png", "A.PNG", "a.txt", "a.jpgx", "png"},
           mimetype : {"image/png", "text/plain"},
           size : {1024, FileSizeLimit + 1}]
          \cup {[present |-> FALSE, originalname |-> "", mimetype |-> "",
                 size |-> 0]},
   env : {"development", "production"}, random : {0}, now : {1}]

NextUpload ==
  \/ \E r \in UploadRequests : UploadImageV1(r)
  \/ \E r \in UploadRequests : UploadImage(r)

SpecUpload == Init /\ [][NextUpload]_vars

(***************************************************************************)
(* SpecRedaction: the 500 answers of the error middlewares and of          *)
(* POST /register of routes/admin.js, in development and in production     *)
(***************************************************************************)
\* router.post('/register') after its validators let the body through:
\* createAdmin throws what db.query throws, or its own error when the email
\* is taken, and the handler answers every error it catches with 500.  No
\* middleware of the route reads the Authorization header: r.bearer, the id
\* of the admin whose token the request carries (0 for none), is not looked at
AdminRegister(r) ==
  /\ UNCHANGED <<catalogue, hits, db, uploads, elsewhere>>
  /\ IF r.dbError.thrown
     THEN /\ Answer("POST /register", r, 500,
               FormatResponseAdmin(FALSE, JNull,
                 IF r.dbError.message # "" THEN r.dbError.message
                 ELSE "Registration failed",
                 JCode("INTERNAL_SERVER_ERROR"), r.env, r.now))
          /\ UNCHANGED admins
     ELSE IF RowsByEmail(admins, r.email) # {}
     THEN /\ Answer("POST /register", r, 500,
               FormatResponseAdmin(FALSE, JNull,
                 "Admin with this email already exists",
                 JCode("INTERNAL_SERVER_ERROR"), r.env, r.now))
          /\ UNCHANGED admins
     ELSE /\ Len(admins) < MaxAdmins
          /\ admins' = Append(admins,
               [id |-> Len(admins) + 1, username |-> r.username,
                email |-> r.email, password_hash |-> BcryptHash(r.password),
                is_active |-> TRUE, last_login |-> NoTime,
                created_at |-> r.now, updated_at |-> r.now])
          /\ Answer("POST /register", r, 201,
               FormatResponseAdmin(TRUE,
                 JObj([admin |-> [id |-> Len(admins) + 1,
                                  username |-> r.username, email |-> r.email]]),
                 "Admin registered successfully", JNull, r.env, r.now))

\* the error middleware of the router of routes/admin.js
AdminRouterError(r) ==
  /\ UNCHANGED <<catalogue, hits, admins, db, uploads, elsewhere>>
  /\ IF r.error.name = "ValidationError"
     THEN Answer("router error", r, 400,
            FormatResponseAdmin(FALSE, JNull, "Validation failed",
              JCode("VALIDATION_ERROR"), r.env, r.now))
     ELSE IF r.error.name = "UnauthorizedError"
     THEN Answer("router error", r, 401,
            FormatResponseAdmin(FALSE, JNull, "Unauthorized access",
              JCode("UNAUTHORIZED"), r.env, r.now))
     ELSE Answer("router error", r, 500,
            FormatResponseAdmin(FALSE, JNull, "Internal server error",
              JCode("INTERNAL_SERVER_ERROR"), r.env, r.now))

\* a request outside /api/, which the limiter does not count, whose handler
\* passes an error to next()
FailingRequestOutsideApi(r) ==
  /\ ErrorMiddleware("error", r)
  /\ UNCHANGED <<catalogue, hits, admins, db, uploads, elsewhere>>

\* the error middleware setupBodyParsing installs after express.json and
\* express.urlencoded.  r.error is what the parsers or a middleware before
\* them passed on; body.next holds the arguments of the call of next(), and
\* status 0 says that no answer was sent
JsonParseError(r) ==
  /\ UNCHANGED <<catalogue, hits, admins, db, uploads, elsewhere>>
  /\ IF r.error.name = "SyntaxError" /\ r.error.status = 400 /\ r.error.body
     THEN Answer("setupBodyParsing error", r, 400,
            [success |-> FALSE, message |-> "Invalid JSON format",
             code |-> "INVALID_JSON", next |-> <<>>])
     ELSE Answer("setupBodyParsing error", r, 0,
            [success |-> TRUE, message |-> "", code |-> "", next |-> <<>>])

NextRedaction ==
  \/ \E r \in [username : {"second"},
               email : {"second@elouarate.com", "third@elouarate.com"},
               password : {"Secret123!"}, bearer : {0, 1},
               dbError :
                 { [thrown |-> FALSE, message |-> ""],
                   [thrown |-> TRUE, message |-> "connect ECONNREFUSED 127.0.0.1:5432"],
                   [thrown |-> TRUE, message |-> "relation \"admins\" does not exist"],
                   [thrown |-> TRUE, message |-> ""] },
               env : {"development", "production"}, now : {1}] : AdminRegister(r)
  \/ \E r \in [error : [name : {"Error", "ValidationError", "UnauthorizedError"},
                        message : {"boom", "jwt malformed"}],
               env : {"development", "production"}, now : {1}] : AdminRouterError(r)
  \/ \E r \in [error :
                 { [name |-> "SyntaxError",
                    message |-> "Unexpected token } in JSON at position 1"],
                   [name |-> "MulterError", message |-> "File too large"] },
               env : {"development", "production"}, now : {1}] :
        FailingRequestOutsideApi(r)
  \/ \E r \in [error :
                 { [name |-> "SyntaxError", status |-> 400, body |-> TRUE,
                    message |-> "Unexpected token } in JSON at position 1"],
                   [name |-> "PayloadTooLargeError", status |-> 413,
                    body |-> FALSE, message |-> "request entity too large"],
                   [name |-> "Error", status |-> 0, body |-> FALSE,
                    message |-> "Not allowed by CORS"] },
               env : {"development", "production"}, now : {1}] :
        JsonParseError(r)

SpecRedaction == InitBootstrap /\ [][NextRedaction]_vars

(***************************************************************************)
(* SpecCache: the resource cache in front of the store of categories and   *)
(* artworks                                                                *)
(***************************************************************************)
MaxClock == 7
MaxWrites == 2

\* isValid(key): data is present and (now - lastFetched) < ttl, with a TTL
\* of 5 minutes for categories and of 2 minutes for artworks
IsValid(c, key) ==
  LET ttl == [categories |-> 5, artworks |-> 2]
  IN /\ c.entries[key].present
     /\ c.now - c.entries[key].lastFetched < ttl[key]

\* a list request that is served from a cache that is not valid
CachedGetStale(key, r) ==
  /\ UNCHANGED <<catalogue, hits, admins, db, uploads, pool, users, calls>>
  /\ IF r.default /\ cache.entries[key].present
     THEN /\ Answer("list", r @@ [key |-> key], 200,
               [source |-> "cache", data |-> cache.entries[key].data])
          /\ UNCHANGED cache
     ELSE IF ~r.ok
     THEN /\ Answer("list", r @@ [key |-> key], 500,
               [source |-> "store", data |-> 0])
          /\ UNCHANGED cache
     ELSE /\ Answer("list", r @@ [key |-> key], 200,
               [source |-> "store", data |-> cache.store[key]])
          /\ cache' = IF r.default
                      THEN [cache EXCEPT !.entries[key] =
                              [present |-> TRUE, data |-> cache.store[key],
                               lastFetched |-> cache.now]]
                      ELSE cache

\* list(): the default, unfiltered, first-page query is served from the
\* cache while it is valid and fills it otherwise; a query with a filter, a
\* search or a page goes to the store; a fetch that fails leaves the cache
\* as it was
CachedGet(key, r) ==
  /\ UNCHANGED <<catalogue, hits, admins, db, uploads, pool, users, calls>>
  /\ IF r.default /\ IsValid(cache, key)
     THEN /\ Answer("list", r @@ [key |-> key], 200,
               [source |-> "cache", data |-> cache.entries[key].data])
          /\ UNCHANGED cache
     ELSE IF ~r.ok
     THEN /\ Answer("list", r @@ [key |-> key], 500,
               [source |-> "store", data |-> 0])
          /\ UNCHANGED cache
     ELSE /\ Answer("list", r @@ [key |-> key], 200,
               [source |-> "store", data |-> cache.store[key]])
          /\ cache' = IF r.default
                      THEN [cache EXCEPT !.entries[key] =
                              [present |-> TRUE, data |-> cache.store[key],
                               lastFetched |-> cache.now]]
                      ELSE cache

\* create, update or delete of a resource: the store is written and
\* invalidate(key) clears data and timestamp; the delete of an artwork also
\* invalidates the categories
CacheWrite(key, op) ==
  /\ UNCHANGED <<catalogue, hits, admins, db, uploads, pool, users, calls>>
  /\ cache.store[key] < MaxWrites
  /\ Answer(op, [key |-> key], 200, [source |-> "store", data |-> 0])
  /\ LET empty == [present |-> FALSE, data |-> 0, lastFetched |-> 0]
         written == [cache EXCEPT !.store[key] = @ + 1, !.entries[key] = empty]
     IN cache' = IF key = "artworks" /\ op = "delete"
                 THEN [written EXCEPT !.entries["categories"] = empty]
                 ELSE written

\* a minute passes
CacheTick ==
  /\ cache.now < MaxClock
  /\ cache' = [cache EXCEPT !.now = @ + 1]
  /\ UNCHANGED <<catalogue, last, hits, admins, db, uploads, pool, users, calls>>

NextCache ==
  \/ \E key \in {"categories", "artworks"},
        r \in [default : BOOLEAN, ok : BOOLEAN] : CachedGet(key, r)
  \/ \E key \in {"categories", "artworks"},
        op \in {"create", "update", "delete"} : CacheWrite(key, op)
  \/ CacheTick

SpecCache == Init /\ [][NextCache]_vars

(***************************************************************************)
(* SpecProbe: the connection probes of config/database.js and of the       *)
(* Database class.  pool.created says whether the module variable pool of  *)
(* config/database.js holds a pool, pool.out counts the clients checked    *)
(* out of it and pool.dbOut those checked out of the pool of Database      *)
(***************************************************************************)
\* max of both pool configurations
PoolMax == 20

\* connectDatabase(): a new pool replaces the one the module held; the
\* client is released after the probe query, on the path where it succeeds
ConnectDatabase(r) ==
  /\ pool' = [pool EXCEPT !.created = TRUE,
                          !.out = IF r.connect /\ ~r.query THEN 1 ELSE 0]
  /\ Answer("connectDatabase", r, 0, [thrown |-> ~(r.connect /\ r.query)])
  /\ UNCHANGED <<catalogue, hits, admins, db, uploads, cache, users, calls>>

\* getConnectionStatus(): pool.connect() does not resolve while every client
\* of the pool is checked out
GetConnectionStatus(r) ==
  /\ pool' = IF pool.created /\ pool.out < PoolMax /\ r.connect /\ ~r.query
             THEN [pool EXCEPT !.out = @ + 1]
             ELSE pool
  /\ Answer("getConnectionStatus", r @@ [pool |-> pool.created], 0,
       IF ~pool.created THEN [thrown |-> FALSE, connected |-> FALSE,
                              waiting |-> FALSE, error |-> "Pool not initialized"]
       ELSE IF pool.out = PoolMax
       THEN [thrown |-> FALSE, connected |-> FALSE, waiting |-> TRUE,
             error |-> ""]
       ELSE IF r.connect /\ r.query
       THEN [thrown |-> FALSE, connected |-> TRUE, waiting |-> FALSE,
             error |-> ""]
       ELSE [thrown |-> FALSE, connected |-> FALSE, waiting |-> FALSE,
             error |-> IF r.connect THEN "query failed" ELSE "connect failed"])
  /\ UNCHANGED <<catalogue, hits, admins, db, uploads, cache, users, calls>>

\* Database.testConnection() on the pool the constructor made
TestConnection(r) ==
  /\ pool' = IF pool.dbOut < PoolMax /\ r.connect /\ ~r.query
             THEN [pool EXCEPT !.dbOut = @ + 1]
             ELSE pool
  /\ Answer("testConnection", r, 0,
       [thrown |-> pool.dbOut < PoolMax /\ ~(r.connect /\ r.query),
        waiting |-> pool.dbOut = PoolMax])
  /\ UNCHANGED <<catalogue, hits, admins, db, uploads, cache, users, calls>>

NextProbe ==
  \/ \E r \in [connect : BOOLEAN, query : BOOLEAN] : ConnectDatabase(r)
  \/ \E r \in [connect : BOOLEAN, query : BOOLEAN] : GetConnectionStatus(r)
  \/ \E r \in [connect : BOOLEAN, query : BOOLEAN] : TestConnection(r)

SpecProbe == Init /\ [][NextProbe]_vars

(***************************************************************************)
(* SpecUsers: POST, PUT and DELETE /api/users on the seeded customers      *)
(***************************************************************************)
MaxUsers == 5

\* a test of emails that tells upper case from lower case
EmailTakenExact(us, email, id) ==
  FindIndex(us, [u \in Elems(us) |-> u.email.s = email.s /\ u.id # id])

\* users.find(u => u.email.toLowerCase() === email.toLowerCase() && u.id !== id)
\* for strings; POST has no second conjunct and passes an id no user has
EmailTaken(us, email, id) ==
  FindIndex(us, [u \in Elems(us) |->
     LowerCased[u.email.s] = LowerCased[email.s] /\ u.id # id])

\* POST /api/users.  toLowerCase is no method of a value that is not a
\* string: the callback of find throws at the first user it visits, and the
\* error middleware answers 500
PostUser(r) ==
  /\ UNCHANGED <<catalogue, hits, admins, db, uploads, pool, cache, calls>>
  /\ IF ~Truthy(r.firstName) \/ ~Truthy(r.lastName) \/ ~Truthy(r.email)
     THEN /\ Answer("POST /api/users", r, 400,
               FormatResponse(FALSE, JNull,
                 "First name, last name, and email are required",
                 JCode("VALIDATION_ERROR"), r.now))
          /\ UNCHANGED users
     ELSE IF users # <<>> /\ ( r.email.t # "string"
                               \/ \E u \in Elems(users) : u.email.t # "string" )
     THEN /\ Answer("POST /api/users", r, 500,
               FormatResponse(FALSE, JNull, "toLowerCase is not a function",
                 JCode("INTERNAL_SERVER_ERROR"), r.now))
          /\ UNCHANGED users
     ELSE IF EmailTaken(users, r.email, "") # 0
     THEN /\ Answer("POST /api/users", r, 409,
               FormatResponse(FALSE, JNull, "User with this email already exists",
                 JCode("USER_EXISTS"), r.now))
          /\ UNCHANGED users
     ELSE LET max == MaxOf({ParseInt(JStr(users[i].id)).n : i \in Indices(users)})
              newUser ==
                [id |-> CHOOSE str \in DOMAIN Spelling :
                           /\ Len(Spelling[str]) = 1
                           /\ LeadingNumber[str] = JNum(max + 1),
                 firstName |-> r.firstName, lastName |-> r.lastName,
                 email |-> r.email, isActive |-> JBool(TRUE),
                 isEmailVerified |-> JBool(FALSE), createdAt |-> r.now,
                 updatedAt |-> r.now]
          IN /\ Len(users) < MaxUsers
             /\ users' = Append(users, newUser)
             /\ Answer("POST /api/users", r, 201,
                  FormatResponse(TRUE, JObj([user |-> newUser]),
                    "User created successfully", JNull, r.now))

\* PUT /api/users/:id
PutUser(r) ==
  /\ UNCHANGED <<catalogue, hits, admins, db, uploads, pool, cache, calls>>
  /\ LET userIndex == FindIndex(users, [u \in Elems(users) |-> u.id = r.id])
     IN IF userIndex = 0
        THEN /\ Answer("PUT /api/users/:id", r, 404,
                  FormatResponse(FALSE, JNull, "User not found",
                    JCode("USER_NOT_FOUND"), r.now))
             /\ UNCHANGED users
        ELSE IF Truthy(r.email)
                /\ ( r.email.t # "string"
                     \/ \E u \in Elems(users) : u.email.t # "string" )
        THEN /\ Answer("PUT /api/users/:id", r, 500,
                  FormatResponse(FALSE, JNull, "toLowerCase is not a function",
                    JCode("INTERNAL_SERVER_ERROR"), r.now))
             /\ UNCHANGED users
        ELSE IF Truthy(r.email) /\ EmailTaken(users, r.email, r.id) # 0
        THEN /\ Answer("PUT /api/users/:id", r, 409,
                  FormatResponse(FALSE, JNull,
                    "Another user with this email already exists",
                    JCode("USER_EXISTS"), r.now))
             /\ UNCHANGED users
        ELSE LET updatedUser ==
                   [users[userIndex] EXCEPT
                      !.firstName = IF Truthy(r.firstName) THEN r.firstName ELSE @,
                      !.lastName = IF Truthy(r.lastName) THEN r.lastName ELSE @,
                      !.email = IF Truthy(r.email) THEN r.email ELSE @,
                      !.isActive = IF r.isActive # JUndef THEN r.isActive ELSE @,
                      !.updatedAt = r.now]
             IN /\ users' = [users EXCEPT ![userIndex] = updatedUser]
                /\ Answer("PUT /api/users/:id", r, 200,
                     FormatResponse(TRUE, JObj([user |-> updatedUser]),
                       "User updated successfully", JNull, r.now))

\* DELETE /api/users/:id
DeleteUser(r) ==
  /\ UNCHANGED <<catalogue, hits, admins, db, uploads, pool, cache, calls>>
  /\ LET userIndex == FindIndex(users, [u \in Elems(users) |-> u.id = r.id])
     IN IF userIndex = 0
        THEN /\ Answer("DELETE /api/users/:id", r, 404,
                  FormatResponse(FALSE, JNull, "User not found",
                    JCode("USER_NOT_FOUND"), r.now))
             /\ UNCHANGED users
        ELSE /\ users' = Splice(users, userIndex)
             /\ Answer("DELETE /api/users/:id", r, 200,
                  FormatResponse(TRUE, JObj([user |-> users[userIndex]]),
                    "User deleted successfully", JNull, r.now))

NextUsers ==
  \/ \E r \in [firstName : {JStr("d")}, lastName : {JUndef, JStr("d")},
               email : {JStr("new@example.com"), JStr("New@Example.com"),
                        JStr("AHMED.BENALI@example.com"), JNum(7)},
               now : {1}] : PostUser(r)
  \/ \E r \in [id : {"1", "2", "9"}, firstName : {JUndef}, lastName : {JUndef},
               email : {JUndef, JStr("New@Example.com"),
                        JStr("AHMED.BENALI@example.com"), JNum(7)},
               isActive : {JUndef, JBool(FALSE)}, now : {1}] : PutUser(r)
  \/ \E r \in [id : {"1", "5"}, now : {1}] : DeleteUser(r)

SpecUsers == Init /\ [][NextUsers]_vars

(***************************************************************************)
(* SpecRace: two calls of AdminService.authenticateAdmin with the default  *)
(* credentials on a database without admins, interleaved at every await    *)
(***************************************************************************)
\* authenticateAdmin('admin@elouarate.com', 'Admin123!') is called and runs
\* up to its first await, the CREATE TABLE IF NOT EXISTS of ensureAdminSetup
AuthenticateAdmin(p) ==
  /\ calls[p].pc = "idle"
  /\ calls' = [calls EXCEPT ![p].pc = "select"]
  /\ UNCHANGED <<catalogue, last, hits, admins, db, uploads, pool, cache, users>>

\* ensureAdminSetup from the SELECT on, a step for each await: the SELECT of
\* the default admin, bcrypt.hash, the INSERT.  email is UNIQUE: the INSERT
\* of a second row with the email fails, the catch throws 'Failed to setup
\* admin system' and the catch of authenticateAdmin 'Authentication failed
\* due to server error'
EnsureAdminSetupStep(p, now) ==
  /\ calls[p].pc \in {"select", "hash", "insert"}
  /\ UNCHANGED <<catalogue, last, hits, db, uploads, pool, cache, users>>
  /\ CASE calls[p].pc = "select" ->
            /\ calls' = [calls EXCEPT
                  ![p].missing = (RowsByEmail(admins, DefaultAdminEmail) = {}),
                  ![p].pc = IF RowsByEmail(admins, DefaultAdminEmail) = {}
                            THEN "hash" ELSE "find"]
            /\ UNCHANGED admins
       [] calls[p].pc = "hash" ->
            /\ calls' = [calls EXCEPT ![p].pc = "insert"]
            /\ UNCHANGED admins
       [] calls[p].pc = "insert" ->
            IF RowsByEmail(admins, DefaultAdminEmail) # {}
            THEN /\ calls' = [calls EXCEPT ![p].pc = "done", ![p].result = "thrown"]
                 /\ UNCHANGED admins
            ELSE /\ calls' = [calls EXCEPT ![p].pc = "find"]
                 /\ admins' = Append(admins, DefaultAdminRow(admins, now))

\* authenticateAdmin after ensureAdminSetup, a step for each await: the
\* SELECT by email, bcrypt.compare, the UPDATE of last_login
AuthenticateAdminStep(p, now) ==
  /\ calls[p].pc \in {"find", "compare", "update"}
  /\ UNCHANGED <<catalogue, last, hits, db, uploads, pool, cache, users>>
  /\ CASE calls[p].pc = "find" ->
            /\ calls' = IF RowsByEmail(admins, DefaultAdminEmail) = {}
                        THEN [calls EXCEPT ![p].pc = "done",
                                           ![p].result = "Invalid credentials"]
                        ELSE [calls EXCEPT ![p].pc = "compare"]
            /\ UNCHANGED admins
       [] calls[p].pc = "compare" ->
            /\ calls' = [calls EXCEPT ![p].pc = "update"]
            /\ UNCHANGED admins
       [] calls[p].pc = "update" ->
            /\ calls' = [calls EXCEPT ![p].pc = "done", ![p].result = "tokens"]
            /\ admins' = [i \in Indices(admins) |->
                            IF admins[i].email = DefaultAdminEmail
                            THEN [admins[i] EXCEPT !.last_login = now]
                            ELSE admins[i]]

NextRace ==
  \/ \E p \in {1, 2} : AuthenticateAdmin(p)
  \/ \E p \in {1, 2}, now \in {1, 2} : EnsureAdminSetupStep(p, now)
  \/ \E p \in {1, 2}, now \in {1, 2} : AuthenticateAdminStep(p, now)

SpecRace == InitBootstrap /\ [][NextRace]_vars

(***************************************************************************)
(* Properties                                                              *)
(***************************************************************************)
CategoryWrites ==
  {"POST /api/categories", "PUT /api/categories/:id", "DELETE /api/categories/:id"}

IsActiveAt(cats, i) == Truthy(cats[i].isActive)

(* C1: no two active categories have names that are equal ignoring case,   *)
(* in every state reachable by POST, PUT and DELETE on /api/categories.    *)
C1_ActiveNamesUnique ==
  \A i, j \in Indices(categories) :
     (i # j /\ IsActiveAt(categories, i) /\ IsActiveAt(categories, j))
       => LowerCased[categories[i].name.s] # LowerCased[categories[j].name.s]

\* the name of request r equals, ignoring case, the name of an active
\* category of cats whose id is not in `except`
Collides(cats, r, except) ==
  /\ r.name.t = "string"
  /\ r.name.s # ""
  /\ \E i \in Indices(cats) :
        /\ IsActiveAt(cats, i)
        /\ cats[i].id \notin except
        /\ LowerCased[cats[i].name.s] = LowerCased[r.name.s]

IdsNamed(cats, id) == {cats[i].id : i \in {j \in Indices(cats) : StrictEqInt(cats[j].id, ParseInt(id))}}

(* C2: a POST /api/categories (with a description) whose name equals,      *)
(* ignoring case, the name of an active category, and a PUT                *)
(* /api/categories/:id on an existing category whose name equals that of a *)
(* different active category, are answered 409 CATEGORY_EXISTS and leave   *)
(* the categories store unchanged.                                         *)
C2_CollisionRejected ==
  [][ ( \/ /\ last'.op = "POST /api/categories"
            /\ Truthy(last'.req.description)
            /\ Collides(categories, last'.req, {})
         \/ /\ last'.op = "PUT /api/categories/:id"
            /\ IdsNamed(categories, last'.req.id) # {}
            /\ Collides(categories, last'.req, IdsNamed(categories, last'.req.id)) )
      => ( /\ last'.status = 409
           /\ last'.body.error = "CATEGORY_EXISTS"
           /\ categories' = categories ) ]_vars

\* the number of active artworks of arts whose categoryId is in ids
ActiveReferences(arts, ids) ==
  Cardinality({i \in Indices(arts) :
                 arts[i].categoryId \in ids /\ Truthy(arts[i].isActive)})

(* C3: DELETE /api/categories/:id on an existing category that N > 0       *)
(* active artworks reference is answered 409 CATEGORY_HAS_ARTWORKS with N  *)
(* in the message and changes neither store; with N = 0 it is answered 200 *)
(* and removes that category and nothing else.                             *)
C3_DeleteCategory ==
  [][ ( /\ last'.op = "DELETE /api/categories/:id"
        /\ IdsNamed(categories, last'.req.id) # {} )
      => LET ids == IdsNamed(categories, last'.req.id)
             N == ActiveReferences(artworks, ids)
         IN /\ artworks' = artworks
            /\ N > 0 => /\ last'.status = 409
                        /\ last'.body.error = "CATEGORY_HAS_ARTWORKS"
                        /\ last'.body.message[2] = N
                        /\ categories' = categories
            /\ N = 0 => /\ last'.status = 200
                        /\ Len(categories') = Len(categories) - 1
                        /\ \A c \in Elems(categories) :
                              c \in Elems(categories') <=> c.id \notin ids ]_vars

\* category 4 was deleted right after the artwork that blocked it was
C3_Witness ==
  /\ last.op = "DELETE /api/categories/:id"
  /\ last.status = 200
  /\ last.req.id = JStr("4")
  /\ last.prev.op = "DELETE /api/artworks/:id"
  /\ last.prev.status = 200
  /\ \A i \in Indices(categories) : categories[i].id # 4
  /\ \A i \in Indices(artworks) : artworks[i].id # 5

(* C4: every stored artwork's categoryId is the id of a category of the    *)
(* store: no category is removed while an artwork, active or not, still    *)
(* references it.                                                          *)
C4_NoDanglingCategory ==
  \A i \in Indices(artworks) :
     \E j \in Indices(categories) : categories[j].id = artworks[i].categoryId

(* C5: a request to a write route of /api/categories or /api/artworks that *)
(* carries no bearer token, or a malformed one, is answered 401            *)
(* UNAUTHORIZED and changes neither the categories nor the artworks.       *)
C5_WritesNeedToken ==
  [][ ( /\ last'.op \in CategoryWrites \cup
                         {"POST /api/artworks", "PUT /api/artworks/:id",
                          "DELETE /api/artworks/:id"}
        /\ last'.req.authorization \in {JUndef, JStr("t")} )
      => /\ last'.status = 401
         /\ last'.body.error = "UNAUTHORIZED"
         /\ categories' = categories
         /\ artworks' = artworks ]_vars

(* C6: a stored viewCount changes only by +1, once per successful          *)
(* GET /api/artworks/:id of that artwork, which changes nothing else; a    *)
(* 404 detail request changes nothing; listing, creating and updating      *)
(* artworks leave every stored viewCount as it was.                        *)
C6_ViewCountSteps ==
  [][ /\ ( last'.op = "GET /api/artworks/:id" /\ last'.status = 200 )
         => /\ categories' = categories
            /\ \E i \in {j \in Indices(artworks) :
                            /\ JNum(artworks[j].id) = ParseInt(last'.req.id)
                            /\ Truthy(artworks[j].isActive)} :
                  artworks' = [artworks EXCEPT ![i].viewCount = @ + 1]
      /\ ( last'.op = "GET /api/artworks/:id" /\ last'.status = 404 )
         => /\ categories' = categories
            /\ artworks' = artworks
      /\ last'.op = "GET /api/artworks" => artworks' = artworks
      /\ last'.op \in {"POST /api/artworks", "PUT /api/artworks/:id"}
         => \A i \in Indices(artworks) :
               /\ i \in Indices(artworks')
               /\ artworks'[i].id = artworks[i].id
               /\ artworks'[i].viewCount = artworks[i].viewCount ]_vars

\* artwork 5, seeded with 89 views, was viewed twice in a row
C6_Witness ==
  /\ last.op = "GET /api/artworks/:id"
  /\ last.status = 200
  /\ last.req.id = JStr("5")
  /\ last.prev.op = "GET /api/artworks/:id"
  /\ last.prev.status = 200
  /\ last.body.data.artwork.viewCount = 91
  /\ \E i \in Indices(artworks) :
        artworks[i].id = 5 /\ artworks[i].viewCount = 91

(* C9: a GET /api/artworks/:id that directly follows a successful          *)
(* POST /api/artworks and asks for the id the create returned answers 200  *)
(* with the submitted name, price and categoryId, status AVAILABLE when    *)
(* none was submitted, and the id and createdAt the create returned.       *)
C9_CreateThenGet ==
  [][ ( /\ last.op = "POST /api/artworks"
        /\ last.status = 201
        /\ last'.op = "GET /api/artworks/:id"
        /\ ParseInt(last'.req.id) = JNum(last.body.data.artwork.id) )
      => /\ last'.status = 200
         /\ LET created == last.body.data.artwork
                fetched == last'.body.data.artwork
            IN /\ fetched.name = last.req.name
               /\ fetched.price = last.req.price
               /\ JNum(fetched.categoryId) = last.req.categoryId
               /\ last.req.status = JUndef
                    => fetched.status = JStr("AVAILABLE")
               /\ fetched.id = created.id
               /\ fetched.createdAt = created.createdAt ]_vars

\* artwork a is active and passes the category, featured and search
\* filters of query q
PassesOtherFilters(a, q) ==
  /\ Truthy(a.isActive)
  /\ q.category = JUndef \/ JNum(a.categoryId) = ParseInt(q.category)
  /\ q.featured = JStr("true") => Truthy(a.isFeatured)
  /\ q.search = JUndef
       \/ \E f \in {a.name.s, a.description.s, a.medium.s} :
             Includes(LowerCased[f], LowerCased[q.search.s])

\* the status filter as the handler applies it: an empty status filters
\* nothing, like ALL
PassesStatus(a, q) ==
  CASE q.status = JUndef -> a.status = JStr("AVAILABLE")
    [] q.status \in {JStr("ALL"), JStr("")} -> TRUE
    [] OTHER -> a.status = q.status

\* the ids of the stored artworks that query q selects
SelectedIds(arts, q) ==
  {arts[i].id : i \in {j \in Indices(arts) :
      PassesOtherFilters(arts[j], q) /\ PassesStatus(arts[j], q)}}

(* C7: the answer of GET /api/artworks with limit L and offset O has       *)
(* total = the size of the filtered set, hasMore = (O + L < total) and     *)
(* min(L, total - O) artworks, none when O >= total.                       *)
C7_Pagination ==
  last.op = "GET /api/artworks"
    => LET L == ParseInt(OrDefault(last.req.limit, JNum(50))).n
           O == ParseInt(OrDefault(last.req.offset, JNum(0))).n
           total == Cardinality(SelectedIds(artworks, last.req))
           page == last.body.data.pagination
           n == Len(last.body.data.artworks)
       IN /\ page.total = total
          /\ page.hasMore = (O + L < total)
          /\ n = IF O >= total THEN 0
                 ELSE IF L < total - O THEN L ELSE total - O

\* a page of two artworks in the middle of a longer list, and a page cut
\* short by the end of the list, were both possible: this is the first
C7_Witness ==
  /\ last.op = "GET /api/artworks"
  /\ ParseInt(OrDefault(last.req.limit, JNum(50))).n = 2
  /\ ParseInt(OrDefault(last.req.offset, JNum(0))).n = 1
  /\ last.body.data.pagination.total = 4
  /\ last.body.data.pagination.hasMore
  /\ Len(last.body.data.artworks) = 2

(* C8 as stated: GET /api/artworks returns only active artworks; with      *)
(* status=S, S other than ALL, only those of status S; without a status    *)
(* only the AVAILABLE ones; with status=ALL those of every status; and its *)
(* total counts every artwork that satisfies the filters.                  *)
C8_StatusFilter ==
  last.op = "GET /api/artworks"
    => LET q == last.req
           returned == last.body.data.artworks
           AsClaimed(a) ==
             CASE q.status = JUndef -> a.status = JStr("AVAILABLE")
               [] q.status = JStr("ALL") -> TRUE
               [] OTHER -> a.status = q.status
           wanted == {artworks[i].id : i \in {j \in Indices(artworks) :
                        /\ PassesOtherFilters(artworks[j], q)
                        /\ AsClaimed(artworks[j])}}
       IN /\ \A k \in Indices(returned) :
                /\ Truthy(returned[k].isActive)
                /\ AsClaimed(returned[k])
                /\ returned[k].id \in wanted
          /\ last.body.data.pagination.total = Cardinality(wanted)

(* C8 amended: the same, for a status S that is neither ALL nor empty; an  *)
(* empty status (?status=) selects the artworks of every status, like ALL. *)
C8_StatusFilterAmended ==
  last.op = "GET /api/artworks"
    => LET returned == last.body.data.artworks
           wanted == SelectedIds(artworks, last.req)
       IN /\ \A k \in Indices(returned) :
                /\ Truthy(returned[k].isActive)
                /\ PassesStatus(returned[k], last.req)
                /\ returned[k].id \in wanted
          /\ last.body.data.pagination.total = Cardinality(wanted)
          /\ ( ParseInt(OrDefault(last.req.offset, JNum(0))).n = 0
               /\ ParseInt(OrDefault(last.req.limit, JNum(50))).n >= Cardinality(wanted) )
             => {returned[k].id : k \in Indices(returned)} = wanted

\* status=SOLD returned the sold artworks, all of them, and left out the
\* active AVAILABLE ones
C8_Witness ==
  /\ last.op = "GET /api/artworks"
  /\ last.req.status = JStr("SOLD")
  /\ last.req.limit = JUndef /\ last.req.offset = JUndef
  /\ Len(last.body.data.artworks) = 2
  /\ \A k \in Indices(last.body.data.artworks) :
        last.body.data.artworks[k].status = JStr("SOLD")
  /\ \E i \in Indices(artworks) :
        Truthy(artworks[i].isActive) /\ artworks[i].status = JStr("AVAILABLE")

(* C11: every envelope that formatResponse builds for a handler carries    *)
(* success, message and timestamp, carries no data field when success is   *)
(* false and no error field when success is true.                          *)
C11_EnvelopeShape ==
  last.op = "formatResponse"
    => /\ {"success", "message", "timestamp"} \subseteq DOMAIN last.body
       /\ ~last.body.success => "data" \notin DOMAIN last.body
       /\ last.body.success => "error" \notin DOMAIN last.body

\* the envelope of the 409 of DELETE /api/categories/:id was built: a
\* failure with its error code and no data
C11_Witness ==
  /\ last.op = "formatResponse"
  /\ last.req.line = 1502
  /\ ~last.body.success
  /\ last.body.error = "CATEGORY_HAS_ARTWORKS"
  /\ DOMAIN last.body = {"success", "message", "timestamp", "error"}

(* C12: every error response of the server (status 400 and above) is an    *)
(* envelope with success = false and an error field holding a code string. *)
C12_ErrorEnvelope ==
  last.status >= 400
    => /\ "success" \in DOMAIN last.body
       /\ last.body.success = FALSE
       /\ "error" \in DOMAIN last.body
       /\ last.body.error \in
            {site.error.c : site \in {x \in CallSitesServer : x.error.t = "code"}}

C14_BootstrapOnlyWhenEmpty ==
  [][ last'.op \in {"ensureAdminSetup", "seedAdmins"}
      => IF admins = <<>>
         THEN /\ Len(admins') = 1
              /\ admins'[1].email = DefaultAdminEmail
         ELSE admins' = admins ]_vars

C16_LiveArtworkCount ==
  ( last.op = "GET /api/categories" /\ last.status = 200 )
    => \A k \in Indices(last.body.data.categories) :
          LET cat == last.body.data.categories[k]
          IN cat.artworkCount = ActiveReferences(artworks, {cat.id})

(* C17: POST /api/artworks answers 201 and appends an artwork with status  *)
(* AVAILABLE unless supplied, isActive true and viewCount 0 exactly when    *)
(* name, description, a price that is a number >= 0 (0 included) and a      *)
(* categoryId naming an existing category are supplied; otherwise it       *)
(* answers 400 VALIDATION_ERROR or INVALID_CATEGORY and leaves the         *)
(* artworks unchanged.                                                     *)
C17_CreateArtworkIff ==
  [][ last'.op = "POST /api/artworks"
      => LET r == last'.req
             supplied == /\ r.name.t = "string" /\ r.name.s # ""
                         /\ r.description.t = "string" /\ r.description.s # ""
                         /\ r.price.t = "number" /\ r.price.n >= 0
                         /\ r.categoryId.t = "number"
             known == \E j \in Indices(categories) :
                         categories[j].id = r.categoryId.n
         IN IF supplied /\ known
            THEN /\ last'.status = 201
                 /\ Len(artworks') = Len(artworks) + 1
                 /\ SubSeq(artworks', 1, Len(artworks)) = artworks
                 /\ LET new == artworks'[Len(artworks')]
                    IN /\ new.status = IF r.status = JUndef
                                       THEN JStr("AVAILABLE") ELSE r.status
                       /\ new.isActive = JBool(TRUE)
                       /\ new.viewCount = 0
            ELSE /\ last'.status = 400
                 /\ last'.body.error \in {"VALIDATION_ERROR", "INVALID_CATEGORY"}
                 /\ artworks' = artworks ]_vars

(* C18: a successful PUT /api/artworks/:id or PUT /api/categories/:id sets *)
(* exactly the updatable fields present in the body to the supplied values *)
(* (falsy ones such as price 0, an empty description or isActive false      *)
(* included) and updatedAt, and leaves every other field and every other   *)
(* record unchanged.                                                       *)
C18_UpdateSetsSupplied ==
  [][ /\ ( last'.op = "PUT /api/artworks/:id" /\ last'.status = 200 )
         => LET r == last'.req
                i == ArtworkIndex(artworks, r.id)
                Supplied(v, old) == IF v # JUndef THEN v ELSE old
            IN /\ categories' = categories
               /\ artworks' = [artworks EXCEPT ![i] = [@ EXCEPT
                     !.name = Supplied(r.name, @),
                     !.description = Supplied(r.description, @),
                     !.price = Supplied(r.price, @),
                     !.originalPrice = Supplied(r.originalPrice, @),
                     !.medium = Supplied(r.medium, @),
                     !.status = Supplied(r.status, @),
                     !.isFeatured = Supplied(r.isFeatured, @),
                     !.isActive = Supplied(r.isActive, @),
                     !.updatedAt = r.now]]
      /\ ( last'.op = "PUT /api/categories/:id" /\ last'.status = 200 )
         => LET r == last'.req
                i == CategoryIndex(categories, r.id)
                Supplied(v, old) == IF v # JUndef THEN v ELSE old
            IN /\ artworks' = artworks
               /\ categories' = [categories EXCEPT ![i] = [@ EXCEPT
                     !.name = Supplied(r.name, @),
                     !.description = Supplied(r.description, @),
                     !.color = Supplied(r.color, @),
                     !.isActive = Supplied(r.isActive, @),
                     !.updatedAt = r.now]] ]_vars

(* C19: posting to POST /api/upload/image a file whose extension or MIME  *)
(* type is not an allowed image type is answered 400 with a file-type      *)
(* error, and writes no file to the uploads directory.                     *)
C19_UploadRejected ==
  [][ ( /\ last'.op = "POST /api/upload/image"
        /\ last'.req.file.present
        /\ LET file == last'.req.file
               ext == ToLowerChars(Extname(Spelling[file.originalname]))
           IN \/ ext \notin {<<".">> \o a : a \in AllowedTypes}
              \/ Spelling[file.mimetype]
                   \notin {<<"i","m","a","g","e","/">> \o a : a \in AllowedTypes} )
      => /\ last'.status = 400
         /\ ~last'.body.success
         /\ last'.body.error # "NO_FILE"
         /\ uploads' = uploads ]_vars

(* C20: when NODE_ENV is production, the body of a 500 answer does not     *)
(* depend on the error that was thrown: its message is the generic         *)
(* internal-error text.                                                    *)
C20_ProductionRedacted ==
  ( last.status = 500 /\ last.req.env = "production" )
    => last.body.message = "Internal server error"

(* C21: for each key of the resource cache, isValid(key) holds exactly     *)
(* when data is present and now - lastFetched < ttl: it is false in the     *)
(* EMPTY state, from invalidate(key) to the next successful fetch, and once *)
(* the TTL has elapsed; every create, update and delete of a resource type  *)
(* invalidates its key; only the default unfiltered first-page query is     *)
(* served from the cache, and only while the key is valid, and only a      *)
(* successful fetch of that query makes a key valid.                       *)
C21_CacheStateMachine ==
  [][ \A key \in {"categories", "artworks"} :
        /\ IsValid(cache, key)
             => /\ cache.entries[key].present
                /\ cache.now - cache.entries[key].lastFetched
                     < (IF key = "categories" THEN 5 ELSE 2)
                /\ cache.entries[key].data = cache.store[key]
        /\ ( last'.op \in {"create", "update", "delete"} /\ last'.req.key = key )
             => /\ ~IsValid(cache', key)
                /\ ~cache'.entries[key].present
        /\ ( last'.op = "list" /\ last'.req.key = key
             /\ last'.body.source = "cache" /\ last' # last )
             => /\ last'.req.default
                /\ IsValid(cache, key)
                /\ last'.body.data = cache.store[key]
        /\ ( ~IsValid(cache, key) /\ IsValid(cache', key) )
             => /\ last'.op = "list" /\ last'.req.key = key
                /\ last'.req.default /\ last'.req.ok
                /\ last'.status = 200
        /\ ( cache.entries[key].present
             /\ cache'.now - cache.entries[key].lastFetched
                  >= (IF key = "categories" THEN 5 ELSE 2)
             /\ cache'.entries[key] = cache.entries[key] )
             => ~IsValid(cache', key) ]_vars

\* a default query was served from the cache after an earlier one had
\* filled it, a minute before
C21_Witness ==
  /\ last.op = "list" /\ last.body.source = "cache"
  /\ last.req.key = "artworks"
  /\ cache.now = cache.entries["artworks"].lastFetched + 1
  /\ cache.store["artworks"] = 1

(* C22: POST /register of the admin router creates an admin row only when  *)
(* the request is authenticated as an existing admin: a request without    *)
(* the token of an admin that exists never adds a row.                     *)
C22_RegisterNeedsAdmin ==
  [][ ( last'.op = "POST /register" /\ admins' # admins )
        => \E i \in 1..Len(admins) : admins[i].id = last'.req.bearer ]_vars

(* C23: every pool client that Database.query and Database.transaction    *)
(* acquire is released exactly once on every path: while the operation     *)
(* runs its one client is checked out and not yet released, and once it    *)
(* has returned or thrown (after a query that succeeded or failed, a BEGIN *)
(* or COMMIT that failed, a ROLLBACK that failed) the client it took has   *)
(* been released once, never twice, and none is left checked out.          *)
C23_ReleasedExactlyOnce ==
  IF db.pc = "idle"
  THEN db.releases = db.connects
  ELSE db.connects = 1 /\ db.releases = 0

\* a transaction whose COMMIT and then ROLLBACK failed has ended
C23_Witness ==
  /\ db.pc = "idle"
  /\ db.thrown = "ROLLBACK failed"
  /\ db.error = "COMMIT failed"
  /\ db.connects = 1
  /\ db.releases = 1

(* C24: every pool client that connectDatabase, getConnectionStatus and   *)
(* Database.testConnection acquire is released on every path, also when    *)
(* the probe query fails, so that no call leaves a client checked out and  *)
(* repeated failing health checks never exhaust the pool;                  *)
(* getConnectionStatus never throws and reports connected = false when the *)
(* pool is null or the probe fails.                                        *)
C24_ProbesRelease ==
  /\ pool.out = 0
  /\ pool.dbOut = 0
  /\ last.op = "getConnectionStatus"
       => /\ ~last.body.thrown
          /\ ~last.body.waiting
          /\ ( ~last.req.pool \/ ~last.req.connect \/ ~last.req.query )
               => ~last.body.connected

(* C25: in every state that creates, updates and deletes with arbitrary    *)
(* bodies reach, the ids of the stored categories are pairwise distinct    *)
(* positive integers, and so are the ids of the artworks: no update        *)
(* changes the id of a record and a create on an emptied store assigns     *)
(* id 1.                                                                   *)
C25_DistinctPositiveIds ==
  /\ \A i, j \in Indices(categories) :
        /\ categories[i].id > 0
        /\ i # j => categories[i].id # categories[j].id
  /\ \A i, j \in Indices(artworks) :
        /\ artworks[i].id > 0
        /\ i # j => artworks[i].id # artworks[j].id
  /\ ( last.op = "POST /api/categories" /\ last.status = 201
       /\ Len(categories) = 1 )
       => categories[1].id = 1

(* C26: an identifier is never used again, for a category or an artwork,  *)
(* also after the record that carried it was deleted: the create that      *)
(* follows a delete assigns an id other than the id of the deleted record. *)
C26_IdsNeverReused ==
  [][ /\ ( last.op = "DELETE /api/categories/:id" /\ last.status = 200
           /\ last'.op = "POST /api/categories" /\ last'.status = 201 )
           => last'.body.data.category.id # last.body.data.category.id
      /\ ( last.op = "DELETE /api/artworks/:id" /\ last.status = 200
           /\ last'.op = "POST /api/artworks" /\ last'.status = 201 )
           => last'.body.data.artwork.id # last.body.data.artwork.id ]_vars

(* C27: POST /api/categories gives the new category a sortOrder strictly   *)
(* greater than every sortOrder in the store, after any sequence of        *)
(* creates and deletes, so the sortOrders of the stored categories are     *)
(* pairwise distinct.                                                      *)
C27_SortOrderFresh ==
  /\ \A i, j \in Indices(categories) :
        i # j => categories[i].sortOrder # categories[j].sortOrder
  /\ ( last.op = "POST /api/categories" /\ last.status = 201 )
       => \A i \in 1..(Len(categories) - 1) :
             categories[i].sortOrder < categories[Len(categories)].sortOrder

C29_JsonErrorsPassedOn ==
  last.op = "setupBodyParsing error"
    => IF last.req.error.name = "SyntaxError" /\ last.req.error.body
       THEN last.status = 400 /\ last.body.code = "INVALID_JSON"
       ELSE last.status = 0 /\ last.body.next = <<last.req.error>>

(* C30: on a database with no admin, two concurrent calls of              *)
(* AdminService.authenticateAdmin with the default credentials, each        *)
(* running the check-then-insert of ensureAdminSetup and interleaved at    *)
(* every await, both succeed with tokens, and exactly one default admin    *)
(* row exists afterwards.                                                  *)
C30_ConcurrentBootstrap ==
  /\ Cardinality(RowsByEmail(admins, DefaultAdminEmail)) <= 1
  /\ ( calls[1].pc = "done" /\ calls[2].pc = "done" )
       => /\ calls[1].result = "tokens"
          /\ calls[2].result = "tokens"
          /\ Cardinality(RowsByEmail(admins, DefaultAdminEmail)) = 1

(* C10: the unfiltered GET /api/categories that directly follows a         *)
(* successful category create, update or delete returns exactly the        *)
(* categories that are active in the store after that write, with the      *)
(* field values they have there, and total counts them.                    *)
C10_NoStaleRead ==
  (/\ last.op = "GET /api/categories"
   /\ last.prev.op \in CategoryWrites
   /\ last.prev.status \in {200, 201})
  => LET listed == last.body.data.categories
     IN /\ last.status = 200
        /\ {listed[k] : k \in Indices(listed)}
             = {categories[i] : i \in {j \in Indices(categories) :
                                          IsActiveAt(categories, j)}}
        /\ Len(listed) = Cardinality({j \in Indices(categories) :
                                        IsActiveAt(categories, j)})
        /\ last.body.data.total = Len(listed)

\* a list read right after a delete, a rename and a create were answered
C10_Witness ==
  /\ last.op = "GET /api/categories"
  /\ last.prev.op = "DELETE /api/categories/:id"
  /\ last.prev.status = 200
  /\ \E i \in Indices(categories) : categories[i].updatedAt # NoTime
  /\ Len(last.body.data.categories) < Len(categories)

====
